---- MODULE Spec2Model ----
(***************************************************************************)
(* Tone adjustment, feature extraction, tone-parameter prediction and the  *)
(* training script of fr_studio.                                           *)
(*                                                                         *)
(* Numbers.  The code computes in float32/float64; the model computes in   *)
(* exact integer arithmetic:                                               *)
(*   - a channel value is an integer 0..255;                               *)
(*   - ToneParameters.contrast and .gamma are held in halves (contrast = 3 *)
(*     is 1.5, gamma = 5 is 2.5), brightness in whole units;               *)
(*   - a float pixel value y is held as floor(y * Sub);                    *)
(*   - luminance and saturation are held in thousandths.                   *)
(***************************************************************************)
EXTENDS Integers, Sequences, FiniteSets, TLC

VARIABLES
    \* one call of adjust and of extract on an image
    image, params, adjusted, features,
    \* the training directories, the cache file and the model file
    dirs_exist, kind, cache, modelFile, seed42,
    \* main() of train_tone_model.py
    pc, order, processed, features_list, params_list, names_list, model,
    \* test_tone_predictor.py: the predictor and its last prediction
    predictor, ctor_error, prediction,
    \* the per-image routing of the three orchestrations
    route,
    \* calls of estimate_tone_parameters and of extract on the same data
    estim,
    \* one call of load_image_pair
    load,
    \* the threads and queues of preprocess_training_data.py
    prep,
    \* the DI container and the objects that resolve from it
    container,
    \* MainWindow: the screen stack and the project-creation worker
    gui,
    \* ImageEditorScreen: its sliders, preview timer and image record
    editor,
    \* the images and masks of one _update_preview
    preview,
    \* a NavigationService under arbitrary calls
    navsvc,
    \* threads inside DIContainer.resolve
    resolving,
    \* one run of a ProjectCreationWorker
    creation

toneVars == <<image, params, adjusted, features>>

diskVars == <<dirs_exist, kind, cache, modelFile, seed42>>

mainVars == <<pc, order, processed, features_list, params_list, names_list, model>>

predVars == <<predictor, ctor_error, prediction>>

trainVars == <<diskVars, mainVars, predVars>>

(* the variables that the tone and the training specifications leave alone *)
firstVars == <<route, estim, load, prep, container, gui>>

moreVars == <<editor, preview, navsvc, resolving, creation>>

restVars == <<firstVars, moreVars>>

(* what each of the further specifications leaves alone *)
exceptRoute == <<toneVars, trainVars, estim, load, prep, container, gui, moreVars>>
exceptEst == <<toneVars, trainVars, route, load, prep, container, gui, moreVars>>
exceptLoad == <<toneVars, trainVars, route, estim, prep, container, gui, moreVars>>
exceptPrep == <<toneVars, trainVars, route, estim, load, container, gui, moreVars>>
exceptContainer == <<toneVars, trainVars, route, estim, load, prep, gui, moreVars>>
exceptGui == <<toneVars, trainVars, route, estim, load, prep, container, moreVars>>

exceptEditor == <<toneVars, trainVars, firstVars, preview, navsvc, resolving, creation>>
exceptPreview == <<toneVars, trainVars, firstVars, editor, navsvc, resolving, creation>>
exceptNav == <<toneVars, trainVars, firstVars, editor, preview, resolving, creation>>
exceptResolving == <<toneVars, trainVars, firstVars, editor, preview, navsvc, creation>>
exceptCreation == <<toneVars, trainVars, firstVars, editor, preview, navsvc, resolving>>

vars == <<toneVars, trainVars, restVars>>

(***************************************************************************)
(* Bounds of the model                                                     *)
(***************************************************************************)
MaxPixels == 2
Sub == 16
MaxSmallDir == 3
MaxImages == 2
MaxProducts == 2
MaxCalls == 4
MaxThreads == 2
MaxResolves == 2
MaxTime == 6

(***************************************************************************)
(* Program constants                                                       *)
(***************************************************************************)
Full == 255
DarkLimit == 50
BrightLimit == 150
MinSamples == 10

NoImage == [mode |-> "none"]
NoFeatures == [none |-> TRUE]

Min2(a, b) == IF a < b THEN a ELSE b
Max2(a, b) == IF a > b THEN a ELSE b

RECURSIVE SumSeq(_)
SumSeq(s) == IF s = <<>> THEN 0 ELSE Head(s) + SumSeq(Tail(s))

(* floor of the square root, by bisection on lo..hi *)
RECURSIVE IsqrtIn(_, _, _)
IsqrtIn(v, lo, hi) ==
    IF lo >= hi THEN lo
    ELSE LET mid == (lo + hi + 1) \div 2
         IN  IF mid * mid <= v THEN IsqrtIn(v, mid, hi)
                               ELSE IsqrtIn(v, lo, mid - 1)

Isqrt(v) == IsqrtIn(v, 0, 46340)

(***************************************************************************)
(* Multi-digit naturals in base 2*Full (little endian), so that            *)
(* num^k / (2*Full)^k is computed exactly without leaving 32 bits.         *)
(***************************************************************************)
Base == 2 * Full

RECURSIVE Digits(_)
Digits(n) == IF n < Base THEN <<n>> ELSE <<n % Base>> \o Digits(n \div Base)

RECURSIVE MulDigits(_, _, _)
MulDigits(ds, m, carry) ==
    IF ds = <<>>
    THEN IF carry = 0 THEN <<>> ELSE Digits(carry)
    ELSE LET p == Head(ds) * m + carry
         IN  <<p % Base>> \o MulDigits(Tail(ds), m, p \div Base)

RECURSIVE PowDigits(_, _, _)
PowDigits(ds, m, k) == IF k = 0 THEN ds ELSE PowDigits(MulDigits(ds, m, 0), m, k - 1)

RECURSIVE DropDigits(_, _)
DropDigits(ds, k) ==
    IF k = 0 THEN ds
    ELSE IF ds = <<>> THEN <<>> ELSE DropDigits(Tail(ds), k - 1)

RECURSIVE FromDigits(_)
FromDigits(ds) == IF ds = <<>> THEN 0 ELSE Head(ds) + Base * FromDigits(Tail(ds))

(***************************************************************************)
(* application/tone_adjuster.py                                            *)
(***************************************************************************)
ToneParameters(b, c, g) == [brightness |-> b, contrast |-> c, gamma |-> g]

(* ToneParameters(): brightness 0.0, contrast 1.0, gamma 1.0 *)
DefaultToneParameters == ToneParameters(0, 2, 2)

(***************************************************************************)
(* infrastructure/numpy_tone_adjuster.py                                   *)
(***************************************************************************)
(* np.clip(v, lo, hi) *)
ClipNoUpper(v, lo, hi) == IF v < lo THEN lo ELSE v

Clip(v, lo, hi) == IF v < lo THEN lo ELSE IF v > hi THEN hi ELSE v

(* np.power(normalized, gamma) * 255.0, where normalized = num / (2*Full)   *)
(* and gamma = g / 2; the result y is returned as floor(y * Sub):           *)
(*   (y*Sub)^2 = Sub^2 * Full^2 * num^g / (2*Full)^g                        *)
gamma_corrected(num, g) ==
    Isqrt(FromDigits(DropDigits(PowDigits(Digits(Sub * Sub * Full * Full), num, g), g)))

(* _apply_tone_curve on one channel value x (a float32 holding 0..255):    *)
(*   normalized = clip((x * contrast + brightness) / 255.0, 0, 1)          *)
(* held as the numerator over 2*Full.                                      *)
normalized_256(x, p) ==
    Clip(((x * p.contrast + 2 * p.brightness) * Full) \div (Full + 1), 0, Base)

normalized(x, p) == Clip(x * p.contrast + 2 * p.brightness, 0, Base)

apply_tone_curve(x, p) == gamma_corrected(normalized(x, p), p.gamma)

(* image.convert("RGBA") of an RGB image: alpha 255 is appended *)
convertRGBA(img) ==
    IF img.mode = "RGBA" THEN img
    ELSE [img EXCEPT !.mode = "RGBA",
                     !.pix = [i \in DOMAIN img.pix |-> Append(img.pix[i], Full)]]

(* astype(np.uint8): the fraction is dropped *)
astype_uint8(v) == v \div Sub

(* np.array(image, dtype=np.float32) holds the channel values unchanged *)
as_float32(x) == x * Sub

(* one pixel of adjust: rgb through the curve, alpha concatenated back,    *)
(* then np.clip(result, 0, 255).astype(np.uint8)                           *)
adjust_pixel_all4(px, p) ==
    [ch \in 1..4 |-> astype_uint8(Clip(apply_tone_curve(px[ch], p), 0, Full * Sub))]

adjust_pixel(px, p) ==
    [ch \in 1..4 |->
        astype_uint8(Clip(IF ch <= 3 THEN apply_tone_curve(px[ch], p)
                                     ELSE as_float32(px[ch]),
                          0, Full * Sub))]

adjust_drop_alpha(img, p) ==
    LET im == convertRGBA(img)
    IN  [mode |-> "RGB", width |-> im.width, height |-> im.height,
         pix |-> [i \in DOMAIN im.pix |-> SubSeq(adjust_pixel(im.pix[i], p), 1, 3)]]

adjust(img, p) ==
    LET im == convertRGBA(img)
    IN  [mode |-> "RGBA", width |-> im.width, height |-> im.height,
         pix |-> [i \in DOMAIN im.pix |-> adjust_pixel(im.pix[i], p)]]

(***************************************************************************)
(* infrastructure/numpy_feature_extractor.py                               *)
(***************************************************************************)
ImageFeatures(lm, ls, dr, mr, br, sm, ss) ==
    [luminance_mean |-> lm, luminance_std |-> ls,
     dark_ratio |-> dr, mid_ratio |-> mr, bright_ratio |-> br,
     saturation_mean |-> sm, saturation_std |-> ss]

(* ImageFeatures.to_array *)
to_array(f) ==
    <<f.luminance_mean, f.luminance_std, f.dark_ratio, f.mid_ratio,
      f.bright_ratio, f.saturation_mean, f.saturation_std>>

(* a ratio count / total, kept as an exact fraction; 0.0 is 0/1 *)
Ratio(n, d) == [num |-> n, den |-> d]
Zero == Ratio(0, 1)

(* the sum of three fractions equals 1 *)
SumsToOne(a, b, c) ==
    a.num * b.den * c.den + b.num * a.den * c.den + c.num * a.den * b.den
        = a.den * b.den * c.den

(* mask = alpha > 0 for RGBA, all ones otherwise *)
mask_all(img) == [i \in DOMAIN img.pix |-> TRUE]

mask(img) ==
    IF img.mode = "RGBA" THEN [i \in DOMAIN img.pix |-> img.pix[i][4] > 0]
    ELSE [i \in DOMAIN img.pix |-> TRUE]

(* _calculate_luminance, in thousandths: 0.299 R + 0.587 G + 0.114 B *)
calculate_luminance(px) == 299 * px[1] + 587 * px[2] + 114 * px[3]

(* _calculate_saturation, in thousandths: (max - min) / max * 255, 0 if max = 0 *)
calculate_saturation(px) ==
    LET max_val == Max2(px[1], Max2(px[2], px[3]))
        min_val == Min2(px[1], Min2(px[2], px[3]))
    IN  IF max_val > 0 THEN ((max_val - min_val) * Full * 1000) \div max_val ELSE 0

(* arr[mask]: the entries of arr at the positions where m is TRUE, in order *)
RECURSIVE Masked(_, _)
Masked(arr, m) ==
    IF arr = <<>> THEN <<>>
    ELSE (IF Head(m) THEN <<Head(arr)>> ELSE <<>>) \o Masked(Tail(arr), Tail(m))

(* the three buckets of a luminance value (thousandths) *)
is_dark(l) == l < DarkLimit * 1000
is_mid(l) == l >= DarkLimit * 1000 /\ l < BrightLimit * 1000
is_bright(l) == l >= BrightLimit * 1000

(* np.sum of a boolean array: the number of positions that hold *)
dark_count(ml) == Cardinality({i \in DOMAIN ml : is_dark(ml[i])})
mid_count_strict(ml) ==
    Cardinality({i \in DOMAIN ml : ml[i] > DarkLimit * 1000 /\ ml[i] < BrightLimit * 1000})
mid_count(ml) == Cardinality({i \in DOMAIN ml : is_mid(ml[i])})
bright_count(ml) == Cardinality({i \in DOMAIN ml : is_bright(ml[i])})

(* np.mean, floored to the unit of the entries *)
mean(s) == SumSeq(s) \div Len(s)

(* np.std (population), in hundreds of the unit of the entries, floored *)
std(s) ==
    LET n == Len(s)
        c == [i \in 1..n |-> s[i] \div 100]
        t == SumSeq(c)
        d == [i \in 1..n |-> (n * c[i] - t) * (n * c[i] - t)]
    IN  Isqrt(SumSeq(d) \div (n * n * n))

masked_luminance(img) ==
    Masked([i \in DOMAIN img.pix |-> calculate_luminance(img.pix[i])], mask(img))

masked_saturation(img) ==
    Masked([i \in DOMAIN img.pix |-> calculate_saturation(img.pix[i])], mask(img))

extract(img) ==
    LET ml == masked_luminance(img)
        ms == masked_saturation(img)
        total_pixels == Len(ml)
    IN  IF Len(ml) = 0
        THEN ImageFeatures(0, 0, Zero, Zero, Zero, 0, 0)
        ELSE ImageFeatures(mean(ml), std(ml),
                           Ratio(dark_count(ml), total_pixels),
                           Ratio(mid_count(ml), total_pixels),
                           Ratio(bright_count(ml), total_pixels),
                           mean(ms), std(ms))

(***************************************************************************)
(* Inputs of the tone curve and the feature extractor                      *)
(***************************************************************************)
Colours == {<<90, 20, 30>>, <<50, 50, 50>>, <<150, 150, 150>>}
Alphas == {0, 128, 255}
Modes == {"RGB", "RGBA"}
Sizes == {wh \in (1..MaxPixels) \X (1..MaxPixels) : wh[1] * wh[2] <= MaxPixels}

Pixels(mode) ==
    IF mode = "RGBA" THEN {c \o <<a>> : c \in Colours, a \in Alphas} ELSE Colours

Image(mode, w, h, pix) == [mode |-> mode, width |-> w, height |-> h, pix |-> pix]

(* small images over Colours, and one-pixel grey images over all of 0..255 *)
SmallImages ==
    UNION {{Image(mw[1], mw[2][1], mw[2][2], pix) :
                pix \in [1..(mw[2][1] * mw[2][2]) -> Pixels(mw[1])]} :
           mw \in Modes \X Sizes}

GreyImages == {Image("RGB", 1, 1, <<<<v, v, v>>>>) : v \in 0..Full}

Images == SmallImages \cup GreyImages

ParamValues ==
    {ToneParameters(b, c, g) : b \in {-50, 0, 50}, c \in {1, 2, 4}, g \in {1, 2, 3, 5}}

(***************************************************************************)
(* scripts/train_tone_model.py                                             *)
(*                                                                         *)
(* The originals are the files 1..Len(kind) in sorted order; kind[f] says  *)
(* what the directories hold for original f:                               *)
(*   "ok"       an ideal file with the same stem exists, both images load; *)
(*   "noideal"  no file of ideal_dir has the stem of f;                    *)
(*   "corrupt"  the ideal exists but one of the two files is not a         *)
(*              readable image (Image.open raises).                        *)
(* A fitted value is not computed: the optimum found for variable v of the *)
(* loss of pair f is held as the token [pair |-> f, var |-> v].            *)
(***************************************************************************)
NoFile == [exists |-> FALSE]
NoModel == [fitted |-> FALSE]
NoPredictor == [constructed |-> FALSE]
NoPrediction == [predicted |-> FALSE]

Kinds == {"ok", "noideal", "corrupt"}

OriginalImage(f) ==
    Image("RGB", 1, 1, <<<<(37 * f) % (Full + 1), (91 * f) % (Full + 1), (53 * f) % (Full + 1)>>>>)

(* loss: b, c, gamma = params; minimize(...).x is returned as x[0], x[1], x[2] *)
estimate_tone_parameters(f) ==
    <<[pair |-> f, var |-> "b"], [pair |-> f, var |-> "c"], [pair |-> f, var |-> "gamma"]>>

(* process_single_image: None, an exception out of Image.open, or          *)
(* (features.to_array(), np.array([b, c, gamma]), original_path.name)      *)
process_single_image(f, k) ==
    IF k = "noideal" THEN [outcome |-> "none"]
    ELSE IF k = "corrupt" THEN [outcome |-> "raise"]
    ELSE LET est == estimate_tone_parameters(f)
             b == est[1]
             c == est[2]
             gamma == est[3]
         IN  [outcome |-> "result",
              features |-> to_array(extract(OriginalImage(f))),
              params |-> <<b, c, gamma>>,
              name |-> f]

(* cache_data: one JSON object per sample, params keyed by name *)
cache_data(fl, pl, nl) ==
    [i \in 1..Len(fl) |->
        [name |-> nl[i], features |-> fl[i],
         params |-> [brightness |-> pl[i][1], contrast |-> pl[i][2], gamma |-> pl[i][3]]]]

(* the three lists read back from data["samples"] *)
cached_features(samples) == [i \in 1..Len(samples) |-> samples[i].features]

cached_params(samples) ==
    [i \in 1..Len(samples) |->
        <<samples[i].params.brightness, samples[i].params.contrast, samples[i].params.gamma>>]

cached_names_reversed(samples) ==
    [i \in 1..Len(samples) |-> samples[Len(samples) + 1 - i].name]

cached_names(samples) == [i \in 1..Len(samples) |-> samples[i].name]

(* len(features_list) < 10 *)
not_enough_never(n) == FALSE

not_enough(n) == n < MinSamples

(* train_test_split(X, y, test_size=0.2, random_state=42): the seeded       *)
(* permutation of 0..n-1 is a fixed function of n that the model does not   *)
(* compute; seed42 stands for it as a rotation.  The first ceil(0.2 n)      *)
(* entries of the permutation are the test rows, the rest the train rows.   *)
permutation(n) == [i \in 1..n |-> ((i - 1 + seed42) % n) + 1]
n_test(n) == (2 * n + 9) \div 10
ind_test(n) == SubSeq(permutation(n), 1, n_test(n))
ind_train(n) == SubSeq(permutation(n), n_test(n) + 1, n)

(* RandomForestRegressor.fit(X_train, y_train): the fitted forest is held  *)
(* as the rows it was fitted on                                            *)
fit(X, y) ==
    LET idx == ind_train(Len(X))
    IN  [fitted |-> TRUE,
         X_train |-> [i \in 1..Len(idx) |-> X[idx[i]]],
         y_train |-> [i \in 1..Len(idx) |-> y[idx[i]]]]

(* a cache and a model left by an earlier run on k pairs *)
EarlierLists(k) ==
    [i \in 1..k |-> process_single_image(i, "ok")]

EarlierCache(k) ==
    LET r == EarlierLists(k)
    IN  cache_data([i \in 1..k |-> r[i].features], [i \in 1..k |-> r[i].params],
                   [i \in 1..k |-> r[i].name])

(***************************************************************************)
(* infrastructure/sklearn_predictor.py                                     *)
(***************************************************************************)
(* _load_model: open(model_path, "rb") raises FileNotFoundError when no    *)
(* file exists, else the unpickled model is returned                       *)
load_model_lenient(file) ==
    IF file = NoFile THEN [raised |-> FALSE, model |-> NoModel]
    ELSE [raised |-> FALSE, model |-> file]

load_model(file) ==
    IF file = NoFile THEN [raised |-> TRUE]
    ELSE [raised |-> FALSE, model |-> file]

(* self._model.predict(feature_array)[0]: component i of the forest's      *)
(* output is an average of component i of rows of y_train; it is held as   *)
(* component i of one such row                                             *)
model_predict(m, x) ==
    IF m = NoModel THEN {} ELSE {m.y_train[k] : k \in DOMAIN m.y_train}

(* predict: ToneParameters(prediction[0], prediction[1], prediction[2]) *)
predict_swapped(pr, img) ==
    LET feature_array == to_array(extract(img))
    IN  {ToneParameters(v[2], v[1], v[3]) : v \in model_predict(pr._model, feature_array)}

predict(pr, img) ==
    LET feature_array == to_array(extract(img))
    IN  {ToneParameters(v[1], v[2], v[3]) : v \in model_predict(pr._model, feature_array)}

(***************************************************************************)
(* The parts of the state that a specification does not use stay at these  *)
(* values.                                                                 *)
(***************************************************************************)
NoRoute == [script |-> "none"]

IdleTone ==
    /\ image = Image("RGBA", 1, 1, <<<<90, 20, 30, 255>>>>)
    /\ params = DefaultToneParameters
    /\ adjusted = NoImage
    /\ features = NoFeatures

IdleTrain ==
    /\ dirs_exist = FALSE /\ kind = <<>> /\ cache = NoFile /\ modelFile = NoFile
    /\ seed42 = 0
    /\ pc = "off" /\ order = <<>> /\ processed = 0
    /\ features_list = <<>> /\ params_list = <<>> /\ names_list = <<>>
    /\ model = NoModel
    /\ predictor = NoPredictor /\ ctor_error = "none" /\ prediction = NoPrediction

IdleRoute == route = NoRoute

NoEst == [pairs |-> <<>>]
IdleEst == estim = NoEst

NoLoad == [state |-> "none"]
IdleLoad == load = NoLoad

NoPrep == [main |-> "none"]
IdlePrep == prep = NoPrep

NoContainer == [state |-> "none"]
IdleContainer == container = NoContainer

NoGui == [state |-> "none"]
IdleGui == gui = NoGui

IdleFirst == IdleRoute /\ IdleEst /\ IdleLoad /\ IdlePrep /\ IdleContainer /\ IdleGui

NoEditor == [state |-> "none"]
IdleEditor == editor = NoEditor

NoPreview == [state |-> "none"]
IdlePreview == preview = NoPreview

NoNav == [state |-> "none"]
IdleNav == navsvc = NoNav

NoResolving == [state |-> "none"]
IdleResolving == resolving = NoResolving

NoCreation == [state |-> "none"]
IdleCreation == creation = NoCreation

IdleMore == IdleEditor /\ IdlePreview /\ IdleNav /\ IdleResolving /\ IdleCreation

IdleRest == IdleFirst /\ IdleMore

(***************************************************************************)
(* Specification of the tone curve and the feature extractor: an image is  *)
(* adjusted with some parameters and its features are extracted.           *)
(***************************************************************************)
Init ==
    /\ image \in Images
    /\ params = DefaultToneParameters
    /\ adjusted = NoImage
    /\ features = NoFeatures
    /\ dirs_exist = FALSE /\ kind = <<>> /\ cache = NoFile /\ modelFile = NoFile
    /\ seed42 = 0
    /\ pc = "off" /\ order = <<>> /\ processed = 0
    /\ features_list = <<>> /\ params_list = <<>> /\ names_list = <<>>
    /\ model = NoModel
    /\ predictor = NoPredictor /\ ctor_error = "none" /\ prediction = NoPrediction
    /\ IdleRest

(* adjuster.adjust(image, p) *)
Adjust(p) ==
    /\ adjusted = NoImage
    /\ features = NoFeatures
    /\ params' = p
    /\ adjusted' = adjust(image, p)
    /\ UNCHANGED <<image, features, trainVars>>
    /\ UNCHANGED restVars

(* feature_extractor.extract(image) *)
Extract ==
    /\ features = NoFeatures
    /\ features' = extract(image)
    /\ UNCHANGED <<image, params, adjusted, trainVars>>
    /\ UNCHANGED restVars

Next ==
    \/ \E p \in ParamValues : Adjust(p)
    \/ Extract

Spec == Init /\ [][Next]_vars

(***************************************************************************)
(* Specification of a training run (main of train_tone_model.py) and of    *)
(* the predictor that loads the model file the run writes.                 *)
(***************************************************************************)
SmallDirs == UNION {[1..n -> Kinds] : n \in 0..MaxSmallDir}

(* directories large enough to train on: all pairs good, or one bad pair   *)
(* first or last                                                           *)
LargeDirs ==
    UNION {{[i \in 1..n |-> IF i = j THEN k ELSE "ok"] : j \in {0, 1, n}, k \in Kinds \ {"ok"}} :
           n \in {MinSamples, MinSamples + 1}}

(* the orders in which the futures complete: every order for a small       *)
(* directory; submission order, its reverse and a rotation for a large one *)
Orders(n) ==
    IF n <= MaxSmallDir
    THEN {o \in [1..n -> 1..n] : \A i, j \in 1..n : i # j => o[i] # o[j]}
    ELSE {[i \in 1..n |-> i], [i \in 1..n |-> n + 1 - i], [i \in 1..n |-> (i % n) + 1]}

CacheFile(samples) == [exists |-> TRUE, samples |-> samples]

InitTrain ==
    /\ image = Image("RGBA", 1, 1, <<<<90, 20, 30, 255>>>>)
    /\ params = DefaultToneParameters
    /\ adjusted = NoImage
    /\ features = NoFeatures
    /\ seed42 \in 0..1
    /\ dirs_exist \in BOOLEAN
    /\ kind \in (IF dirs_exist THEN SmallDirs \cup LargeDirs ELSE {<<>>})
    /\ cache \in {NoFile, CacheFile(EarlierCache(MinSamples - 1)), CacheFile(EarlierCache(MinSamples))}
    /\ modelFile \in
         {NoFile,
          fit(cached_features(EarlierCache(MinSamples)), cached_params(EarlierCache(MinSamples)))}
    /\ pc = "start" /\ order = <<>> /\ processed = 0
    /\ features_list = <<>> /\ params_list = <<>> /\ names_list = <<>>
    /\ model = NoModel
    /\ predictor = NoPredictor /\ ctor_error = "none" /\ prediction = NoPrediction
    /\ IdleRest

(* main, lines 124-171: the early returns, the cache load, or the submit   *)
(* of one task per original                                                *)
Begin ==
    /\ pc = "start"
    /\ IF ~dirs_exist
       THEN pc' = "no_dirs" /\ UNCHANGED <<order, features_list, params_list, names_list>>
       ELSE IF Len(kind) = 0
       THEN pc' = "no_images" /\ UNCHANGED <<order, features_list, params_list, names_list>>
       ELSE IF cache # NoFile
       THEN /\ features_list' = cached_features(cache.samples)
            /\ params_list' = cached_params(cache.samples)
            /\ names_list' = cached_names(cache.samples)
            /\ pc' = "check"
            /\ UNCHANGED order
       ELSE /\ order' \in Orders(Len(kind))
            /\ pc' = "collect"
            /\ UNCHANGED <<features_list, params_list, names_list>>
    /\ UNCHANGED <<processed, model, toneVars, diskVars, predVars>>
    /\ UNCHANGED restVars

(* one iteration of `for future in as_completed(futures)`, lines 174-188 *)
Collect ==
    /\ pc = "collect"
    /\ processed < Len(kind)
    /\ LET f == order[processed + 1]
           result == process_single_image(f, kind[f])
       IN  /\ processed' = processed + 1
           /\ IF result.outcome = "raise"
              THEN /\ pc' = "raised"
                   /\ UNCHANGED <<features_list, params_list, names_list>>
              ELSE IF result.outcome = "none"
              THEN UNCHANGED <<pc, features_list, params_list, names_list>>
              ELSE /\ features_list' = Append(features_list, result.features)
                   /\ params_list' = Append(params_list, result.params)
                   /\ names_list' = Append(names_list, result.name)
                   /\ pc' = pc
    /\ UNCHANGED <<order, model, toneVars, diskVars, predVars>>
    /\ UNCHANGED restVars

(* the cache is written after the loop, lines 190-207 *)
WriteCache ==
    /\ pc = "collect"
    /\ processed = Len(kind)
    /\ cache' = CacheFile(cache_data(features_list, params_list, names_list))
    /\ pc' = "check"
    /\ UNCHANGED <<dirs_exist, kind, modelFile, seed42, order, processed,
                   features_list, params_list, names_list, model, toneVars, predVars>>
    /\ UNCHANGED restVars

(* lines 209-211 *)
Check ==
    /\ pc = "check"
    /\ pc' = IF not_enough(Len(features_list)) THEN "insufficient" ELSE "fit"
    /\ UNCHANGED <<order, processed, features_list, params_list, names_list, model,
                   toneVars, diskVars, predVars>>
    /\ UNCHANGED restVars

(* lines 213-231: split and fit *)
Fit ==
    /\ pc = "fit"
    /\ model' = fit(features_list, params_list)
    /\ pc' = "dump"
    /\ UNCHANGED <<order, processed, features_list, params_list, names_list,
                   toneVars, diskVars, predVars>>
    /\ UNCHANGED restVars

(* lines 233-236: pickle.dump(model, f) *)
Dump ==
    /\ pc = "dump"
    /\ modelFile' = model
    /\ pc' = "done"
    /\ UNCHANGED <<dirs_exist, kind, cache, seed42, order, processed,
                   features_list, params_list, names_list, model, toneVars, predVars>>
    /\ UNCHANGED restVars

(* predictor = SklearnTonePredictor(MODEL_PATH) *)
Construct ==
    /\ predictor = NoPredictor
    /\ LET r == load_model(modelFile)
       IN  IF r.raised
           THEN ctor_error' = "FileNotFoundError" /\ UNCHANGED predictor
           ELSE /\ predictor' = [constructed |-> TRUE, _model |-> r.model]
                /\ ctor_error' = "none"
    /\ UNCHANGED <<prediction, toneVars, diskVars, mainVars>>
    /\ UNCHANGED restVars

(* params = predictor.predict(image) *)
Predict ==
    /\ predictor # NoPredictor
    /\ prediction' \in predict(predictor, image)
    /\ UNCHANGED <<predictor, ctor_error, toneVars, diskVars, mainVars>>
    /\ UNCHANGED restVars

NextTrain ==
    \/ Begin
    \/ Collect
    \/ WriteCache
    \/ Check
    \/ Fit
    \/ Dump
    \/ Construct
    \/ Predict

SpecTrain == InitTrain /\ [][NextTrain]_vars

(***************************************************************************)
(* C1.  For an 8-bit image and parameters within brightness [-50, 50],     *)
(* contrast [0.5, 2.0], gamma [0.5, 2.5], every channel value of every     *)
(* pixel of the adjusted image lies in [0, 255].                           *)
(***************************************************************************)
InBounds(p) ==
    /\ p.brightness >= -50 /\ p.brightness <= 50
    /\ p.contrast >= 1 /\ p.contrast <= 4
    /\ p.gamma >= 1 /\ p.gamma <= 5

C1_OutputInRange ==
    (adjusted # NoImage /\ InBounds(params)) =>
        \A i \in DOMAIN adjusted.pix : \A ch \in DOMAIN adjusted.pix[i] :
            adjusted.pix[i][ch] >= 0 /\ adjusted.pix[i][ch] <= Full

(* a channel is pushed above 1 before the gamma step and comes out clipped *)
C1_Witness ==
    /\ adjusted # NoImage
    /\ params = ToneParameters(50, 4, 5)
    /\ image.pix[1][1] * params.contrast + 2 * params.brightness > Base
    /\ adjusted.pix[1][1] = Full

(***************************************************************************)
(* C2.  adjust with ToneParameters(0, 1, 1) returns every pixel channel    *)
(* value of the input unchanged.                                           *)
(***************************************************************************)
C2_Identity ==
    (adjusted # NoImage /\ params = DefaultToneParameters) =>
        \A i \in DOMAIN image.pix : \A ch \in DOMAIN image.pix[i] :
            adjusted.pix[i][ch] = image.pix[i][ch]

C2_Witness ==
    /\ adjusted # NoImage
    /\ params = DefaultToneParameters
    /\ image.pix[1][1] = 201

(***************************************************************************)
(* C3.  As claimed: the adjusted image has the width, height and mode of   *)
(* the input.                                                              *)
(***************************************************************************)
C3_SameLayout ==
    adjusted # NoImage =>
        /\ adjusted.width = image.width
        /\ adjusted.height = image.height
        /\ adjusted.mode = image.mode

(* C3 as amended: the adjusted image has the width and height of the input *)
(* and one pixel per input pixel, and its mode is RGBA whatever the input  *)
(* mode; so the mode is kept exactly when the input is RGBA.               *)
C3_SameSizeModeRGBA ==
    adjusted # NoImage =>
        /\ adjusted.width = image.width
        /\ adjusted.height = image.height
        /\ DOMAIN adjusted.pix = DOMAIN image.pix
        /\ adjusted.mode = "RGBA"
        /\ \A i \in DOMAIN adjusted.pix : Len(adjusted.pix[i]) = 4

C3_Witness ==
    /\ adjusted # NoImage
    /\ image.mode = "RGB"
    /\ image.width = 1 /\ image.height = 2
    /\ adjusted.mode = "RGBA"

(***************************************************************************)
(* C4.  For an RGBA input, the alpha value of every pixel of the adjusted  *)
(* image equals the alpha value of the same input pixel.                   *)
(***************************************************************************)
C4_AlphaUnchanged ==
    (adjusted # NoImage /\ image.mode = "RGBA") =>
        \A i \in DOMAIN image.pix : adjusted.pix[i][4] = image.pix[i][4]

(* the colour channels changed, the alpha 128 did not *)
C4_Witness ==
    /\ adjusted # NoImage
    /\ image.mode = "RGBA"
    /\ image.pix[1][4] = 128
    /\ adjusted.pix[1][4] = 128
    /\ adjusted.pix[1][1] # image.pix[1][1]

(***************************************************************************)
(* C6.  With at least one included pixel, each included pixel's luminance  *)
(* is in exactly one bucket, the three counts add up to the number of      *)
(* included pixels, and the three ratios of the extracted features add up  *)
(* to 1.                                                                   *)
(***************************************************************************)
OneBucket(l) ==
    /\ is_dark(l) \/ is_mid(l) \/ is_bright(l)
    /\ ~(is_dark(l) /\ is_mid(l))
    /\ ~(is_dark(l) /\ is_bright(l))
    /\ ~(is_mid(l) /\ is_bright(l))

C6_BucketsPartition ==
    LET ml == masked_luminance(image)
    IN  (features # NoFeatures /\ Len(ml) >= 1) =>
            /\ \A i \in 1..Len(ml) : OneBucket(ml[i])
            /\ dark_count(ml) + mid_count(ml) + bright_count(ml) = Len(ml)
            /\ SumsToOne(features.dark_ratio, features.mid_ratio, features.bright_ratio)

(* two included pixels, one exactly on the dark/mid limit, one exactly on  *)
(* the mid/bright limit                                                    *)
C6_Witness ==
    /\ features # NoFeatures
    /\ Len(masked_luminance(image)) = 2
    /\ features.mid_ratio = Ratio(1, 2)
    /\ features.bright_ratio = Ratio(1, 2)
    /\ \E i \in DOMAIN image.pix : calculate_luminance(image.pix[i]) = DarkLimit * 1000

(***************************************************************************)
(* C7.  For an RGBA image whose pixels all have alpha 0, extract returns   *)
(* features whose seven fields are all 0.0.                                *)
(***************************************************************************)
AllTransparent(img) ==
    img.mode = "RGBA" /\ \A i \in DOMAIN img.pix : img.pix[i][4] = 0

C7_TransparentAllZero ==
    (features # NoFeatures /\ AllTransparent(image)) =>
        features = ImageFeatures(0, 0, Zero, Zero, Zero, 0, 0)

C7_Witness ==
    /\ features # NoFeatures
    /\ AllTransparent(image)
    /\ Len(image.pix) = 2
    /\ features.luminance_mean = 0
    /\ calculate_luminance(image.pix[1]) > 0

(***************************************************************************)
(* C5.  Position 1/2/3 of a parameter vector is brightness/contrast/gamma  *)
(* everywhere: in the training labels, in the cache, in the rows the model *)
(* is fitted on and in the ToneParameters that predict returns.            *)
(***************************************************************************)
IsBCG(row) == row[1].var = "b" /\ row[2].var = "c" /\ row[3].var = "gamma"

NamedBCG(pm) == pm.brightness.var = "b" /\ pm.contrast.var = "c" /\ pm.gamma.var = "gamma"

ModelBCG(m) == m # NoModel => \A i \in DOMAIN m.y_train : IsBCG(m.y_train[i])

C5_OrderPreserved ==
    /\ \A i \in DOMAIN params_list : IsBCG(params_list[i])
    /\ cache # NoFile => \A i \in DOMAIN cache.samples : NamedBCG(cache.samples[i].params)
    /\ ModelBCG(model)
    /\ modelFile # NoFile => ModelBCG(modelFile)
    /\ predictor # NoPredictor => ModelBCG(predictor._model)
    /\ prediction # NoPrediction => NamedBCG(prediction)

(* a prediction from a model that this run fitted on a fresh build *)
C5_Witness ==
    /\ pc = "done"
    /\ order # <<>>
    /\ predictor # NoPredictor
    /\ predictor._model = model
    /\ prediction # NoPrediction
    /\ prediction.brightness.pair = names_list[1]

(***************************************************************************)
(* C8.  As claimed: a pair whose ideal is missing or whose image file is   *)
(* corrupt is skipped and the build continues; no bad pair aborts the run. *)
(***************************************************************************)
RECURSIVE GoodOf(_)
GoodOf(fs) ==
    IF fs = <<>> THEN <<>>
    ELSE (IF kind[Head(fs)] = "ok" THEN <<Head(fs)>> ELSE <<>>) \o GoodOf(Tail(fs))

C8_BadPairSkipped ==
    /\ pc # "raised"
    /\ pc = "collect" => names_list = GoodOf(SubSeq(order, 1, processed))

(***************************************************************************)
(* C9.  With fewer than 10 samples after the build or the cache load, the  *)
(* run stops at the check: no model is fitted and the model file is left   *)
(* as it was.                                                              *)
(***************************************************************************)
AfterDataset == {"check", "insufficient", "fit", "dump", "done"}

C9_NoFitWhenTooFew ==
    [][(pc' \in AfterDataset /\ Len(features_list') < MinSamples) =>
            /\ pc' \in {"check", "insufficient"}
            /\ model' = NoModel
            /\ modelFile' = modelFile]_vars

(* nine samples: the run stopped and the earlier model file is still there *)
C9_Witness ==
    /\ pc = "insufficient"
    /\ Len(features_list) = MinSamples - 1
    /\ order # <<>>
    /\ model = NoModel
    /\ modelFile # NoFile

(***************************************************************************)
(* C10. Constructing the predictor when no model file exists raises, and   *)
(* no predictor instance and no prediction exist then; every predictor     *)
(* instance holds a loaded model.                                          *)
(***************************************************************************)
C10_NoPredictorWithoutModel ==
    /\ ctor_error = "FileNotFoundError" => (predictor = NoPredictor /\ prediction = NoPrediction)
    /\ predictor # NoPredictor => predictor._model # NoModel
    /\ prediction # NoPrediction => predictor # NoPredictor

C10_Witness ==
    /\ ctor_error = "FileNotFoundError"
    /\ modelFile = NoFile
    /\ predictor = NoPredictor

(***************************************************************************)
(* C11. As claimed: whatever the completion order, once the collecting     *)
(* loop of a fresh build is over every submitted original has been         *)
(* accounted for exactly once, as a sample or as skipped; the three lists  *)
(* stay index-aligned; and the collected samples are those of the good     *)
(* pairs, the same set for every order.                                    *)
(***************************************************************************)
GoodFiles == {f \in DOMAIN kind : kind[f] = "ok"}

Aligned ==
    /\ Len(features_list) = Len(params_list)
    /\ Len(params_list) = Len(names_list)
    /\ \A i \in DOMAIN names_list :
          LET r == process_single_image(names_list[i], "ok")
          IN  features_list[i] = r.features /\ params_list[i] = r.params

C11_EachOriginalOnce ==
    /\ Aligned
    /\ \A i, j \in DOMAIN names_list : i # j => names_list[i] # names_list[j]
    /\ (order # <<>> /\ pc # "collect") =>
          /\ processed = Len(kind)
          /\ {names_list[i] : i \in DOMAIN names_list} = GoodFiles

(***************************************************************************)
(* C12. As claimed: when the cache file exists at the start of a run, the  *)
(* run estimates and extracts nothing and its training set is the sequence *)
(* of samples of the cache, whatever the image directories hold.           *)
(***************************************************************************)
CacheAtStart == cache # NoFile /\ order = <<>>

TrainingSetIsCache ==
    /\ Len(features_list) = Len(cache.samples)
    /\ Len(params_list) = Len(cache.samples)
    /\ Len(names_list) = Len(cache.samples)
    /\ \A i \in DOMAIN cache.samples :
          /\ names_list[i] = cache.samples[i].name
          /\ features_list[i] = cache.samples[i].features
          /\ params_list[i][1] = cache.samples[i].params.brightness
          /\ params_list[i][2] = cache.samples[i].params.contrast
          /\ params_list[i][3] = cache.samples[i].params.gamma

C12_CacheAlwaysUsed ==
    (CacheAtStart /\ pc # "start") => (processed = 0 /\ TrainingSetIsCache)

(* C12 as amended: when the cache file exists at the start of a run whose  *)
(* two image directories exist and whose original directory holds at least *)
(* one file, no pair is estimated or extracted and the training set is the *)
(* sequence of samples of the cache, whatever else the directories hold;   *)
(* a run without directories or without originals returns before it looks  *)
(* at the cache.                                                           *)
C12_CacheUsedWhenOriginalsExist ==
    /\ (CacheAtStart /\ pc # "start" /\ dirs_exist /\ Len(kind) > 0) =>
          (processed = 0 /\ pc \in AfterDataset /\ TrainingSetIsCache)
    /\ (CacheAtStart /\ pc \in {"dump", "done"}) =>
          model = fit(cached_features(cache.samples), cached_params(cache.samples))

(* a model fitted on the cache although every pair of the directory is bad *)
C12_Witness ==
    /\ CacheAtStart
    /\ pc = "done"
    /\ Len(kind) > 0
    /\ GoodFiles = {}
    /\ Len(names_list) = MinSamples

(***************************************************************************)
(* The routing of an image by its classified view in the three             *)
(* orchestrations: gui/workers/project_creation.py (_process_image),       *)
(* scripts/test_tone_predictor.py (process_image) and                      *)
(* scripts/preprocess_training_data.py (main and bg_removal_worker).       *)
(* route.views[i] is the view the classifier returns for image i;          *)
(* route.removed, route.adjusted and route.copied are the images that were *)
(* passed to remove_background, to adjuster.adjust and to shutil.copy.     *)
(***************************************************************************)
ViewType == {"front", "back", "sleeve", "hem", "tag", "zoom", "other"}

Scripts == {"project_creation", "test_tone_predictor", "preprocess_training_data"}

(* view_type in (ViewType.FRONT, ViewType.BACK) *)
is_front_back_or_zoom(v) == v \in {"front", "back", "zoom"}

is_front_or_back(v) == v \in {"front", "back"}

InitRoute ==
    /\ IdleTone /\ IdleTrain
    /\ IdleEst /\ IdleLoad /\ IdlePrep /\ IdleContainer /\ IdleGui
    /\ IdleMore
    /\ route \in {[script |-> sc, views |-> vs, done |-> 0, bg_queue |-> <<>>,
                   removed |-> {}, adjusted |-> {}, copied |-> {}] :
                  sc \in Scripts, vs \in UNION {[1..n -> ViewType] : n \in 1..MaxImages}}

(* ProjectCreationWorker._process_image, lines 179-217 *)
WorkerProcessImage ==
    /\ route.script = "project_creation"
    /\ route.done < Len(route.views)
    /\ LET i == route.done + 1
       IN  route' = IF is_front_or_back(route.views[i])
                    THEN [route EXCEPT !.done = i, !.removed = @ \cup {i}]
                    ELSE [route EXCEPT !.done = i, !.copied = @ \cup {i}]
    /\ UNCHANGED exceptRoute

(* test_tone_predictor.process_image, lines 49-73 *)
ScriptProcessImage ==
    /\ route.script = "test_tone_predictor"
    /\ route.done < Len(route.views)
    /\ LET i == route.done + 1
       IN  route' = IF is_front_or_back(route.views[i])
                    THEN [route EXCEPT !.done = i, !.removed = @ \cup {i},
                                       !.adjusted = @ \cup {i}]
                    ELSE [route EXCEPT !.done = i, !.adjusted = @ \cup {i}]
    /\ UNCHANGED exceptRoute

(* one iteration of the classification loop of preprocess_training_data.main, *)
(* lines 156-169                                                              *)
PreprocessClassify ==
    /\ route.script = "preprocess_training_data"
    /\ route.done < Len(route.views)
    /\ LET i == route.done + 1
       IN  route' = IF is_front_or_back(route.views[i])
                    THEN [route EXCEPT !.done = i, !.bg_queue = Append(@, i)]
                    ELSE [route EXCEPT !.done = i]
    /\ UNCHANGED exceptRoute

(* bg_removal_worker takes an item and removes its background, lines 63-86 *)
PreprocessRemove ==
    /\ route.script = "preprocess_training_data"
    /\ route.bg_queue # <<>>
    /\ route' = [route EXCEPT !.bg_queue = Tail(@), !.removed = @ \cup {Head(route.bg_queue)}]
    /\ UNCHANGED exceptRoute

NextRoute ==
    \/ WorkerProcessImage
    \/ ScriptProcessImage
    \/ PreprocessClassify
    \/ PreprocessRemove

SpecRoute == InitRoute /\ [][NextRoute]_vars

(***************************************************************************)
(* C13. As claimed: an image is passed to background removal or to tone    *)
(* adjustment only if its classified view is front or back.                *)
(***************************************************************************)
C13_OnlyFrontBackProcessed ==
    route # NoRoute =>
        \A i \in route.removed \cup route.adjusted : route.views[i] \in {"front", "back"}

(* C13 as amended: in all three orchestrations an image is passed to       *)
(* background removal only if its classified view is front or back; the    *)
(* project-creation worker and the preprocessing script pass no image to   *)
(* tone adjustment, and the tone-prediction script passes every image to   *)
(* tone adjustment, whatever its view.                                     *)
C13_OnlyFrontBackRemoved ==
    route # NoRoute =>
        /\ \A i \in route.removed : route.views[i] \in {"front", "back"}
        /\ \A i \in 1..route.done :
              (route.views[i] \in {"front", "back"}) =>
                  (i \in route.removed \/ \E k \in DOMAIN route.bg_queue : route.bg_queue[k] = i)
        /\ route.script # "test_tone_predictor" => route.adjusted = {}
        /\ route.script = "test_tone_predictor" => route.adjusted = 1..route.done

(* a sleeve image that was tone-adjusted without background removal, next  *)
(* to a front image that went through both                                 *)
C13_Witness ==
    /\ route # NoRoute
    /\ route.script = "test_tone_predictor"
    /\ route.done = 2
    /\ route.views = <<"sleeve", "front">>
    /\ route.removed = {2}
    /\ route.adjusted = {1, 2}

(***************************************************************************)
(* estimate_tone_parameters, lines 31-54, on flattened arrays.             *)
(* A pair of flattened arrays is held as runs: a run [x, y, n] stands for  *)
(* n consecutive positions whose original value is x and whose ideal value *)
(* is y.  An array is a sequence of [v, n].  The optimizer is not          *)
(* computed: its result is held as the loss it minimises, which is the     *)
(* bag of (x, y) value pairs of the sample (the mean of line 47 does not   *)
(* depend on anything else).                                               *)
(***************************************************************************)
SampleCapLow == 10000 - 1

SampleCap == 10000

MaxRuns == 2

ValuePairs == {<<6, 249>>, <<249, 6>>, <<5, 100>>, <<100, 250>>}

RunLengths == {1, SampleCap - 1, SampleCap}

Run(x, y, n) == [x |-> x, y |-> y, n |-> n]

(* original.flatten() and ideal.flatten(), lines 31-32 *)
flatten_x(pairs) == [i \in DOMAIN pairs |-> [v |-> pairs[i].x, n |-> pairs[i].n]]
flatten_y(pairs) == [i \in DOMAIN pairs |-> [v |-> pairs[i].y, n |-> pairs[i].n]]

len(arr) == SumSeq([i \in DOMAIN arr |-> arr[i].n])

(* mask = (x > 5) & (x < 250) & (y > 5) & (y < 250), line 34 *)
keep_inclusive(x, y) == x >= 5 /\ x <= 250 /\ y >= 5 /\ y <= 250

keep(x, y) == x > 5 /\ x < 250 /\ y > 5 /\ y < 250

(* the runs of x and y that x[mask] and y[mask] keep, lines 35-36 *)
kept(x, y) == {i \in DOMAIN x : keep(x[i].v, y[i].v)}

RECURSIVE compress(_, _, _)
compress(arr, m, i) ==
    IF i > Len(arr) THEN <<>>
    ELSE IF i \in m THEN <<arr[i]>> \o compress(arr, m, i + 1)
    ELSE compress(arr, m, i + 1)

(* np.random.choice(len(x), 10000, replace=False), line 39: how many       *)
(* positions of each run are drawn; the distinct positions of a run are    *)
(* interchangeable.  TLC explores the draws that take none, one, all but   *)
(* one or all of a run.                                                    *)
Counts(n) == {k \in {0, 1, n - 1, n} : k >= 0 /\ k <= n}

choice(arr) ==
    {k \in [DOMAIN arr -> UNION {Counts(arr[i].n) : i \in DOMAIN arr}] :
        /\ \A i \in DOMAIN arr : k[i] \in Counts(arr[i].n)
        /\ SumSeq(k) = SampleCap}

(* arr[indices], lines 40-41 *)
take(arr, indices) == [i \in DOMAIN arr |-> [v |-> arr[i].v, n |-> indices[i]]]

(* the loss of lines 43-47 as a function of the sample: the bag of pairs *)
loss(x, y) ==
    LET ps == {<<x[i].v, y[i].v>> : i \in {j \in DOMAIN x : x[j].n > 0}}
    IN  [p \in ps |->
            SumSeq([i \in DOMAIN x |-> IF <<x[i].v, y[i].v>> = p THEN x[i].n ELSE 0])]

(* the sample and the minimised loss of one call; indices is the draw of   *)
(* the global generator, used when len(x) > 10000                          *)
estimate(pairs, indices) ==
    LET x0 == flatten_x(pairs)
        y0 == flatten_y(pairs)
        m == kept(x0, y0)
        x1 == compress(x0, m, 1)
        y1 == compress(y0, m, 1)
        x == IF len(x1) > SampleCap THEN take(x1, indices) ELSE x1
        y == IF len(x1) > SampleCap THEN take(y1, indices) ELSE y1
    IN  [x |-> x, y |-> y, result |-> loss(x, y)]

filtered(pairs) == compress(flatten_x(pairs), kept(flatten_x(pairs), flatten_y(pairs)), 1)

NoCall == [result |-> "none"]

ExtractInputs ==
    {Image("RGBA", 1, 1, <<<<90, 20, 30, 255>>>>), Image("RGB", 1, 1, <<<<200, 200, 10>>>>)}

InitEstimate ==
    /\ IdleTone /\ IdleTrain
    /\ IdleRoute /\ IdleLoad /\ IdlePrep /\ IdleContainer /\ IdleGui
    /\ IdleMore
    /\ \E ps \in UNION {[1..n -> {Run(p[1], p[2], l) : p \in ValuePairs, l \in RunLengths}] :
                         n \in 1..MaxRuns},
          img \in ExtractInputs :
          estim = [pairs |-> ps, image |-> img,
                   first |-> NoCall, second |-> NoCall,
                   extracted1 |-> NoFeatures, extracted2 |-> NoFeatures]

(* one call of estimate_tone_parameters on the arrays; the unseeded global *)
(* generator of numpy yields any draw                                      *)
EstimateCall ==
    /\ estim # NoEst
    /\ estim.second = NoCall
    /\ \E indices \in IF len(filtered(estim.pairs)) > SampleCap
                      THEN choice(filtered(estim.pairs)) ELSE {<<>>} :
          estim' = IF estim.first = NoCall
                   THEN [estim EXCEPT !.first = estimate(estim.pairs, indices)]
                   ELSE [estim EXCEPT !.second = estimate(estim.pairs, indices)]
    /\ UNCHANGED exceptEst

(* one call of NumpyFeatureExtractor.extract on the image *)
ExtractCall ==
    /\ estim # NoEst
    /\ estim.extracted2 = NoFeatures
    /\ estim' = IF estim.extracted1 = NoFeatures
                THEN [estim EXCEPT !.extracted1 = extract(estim.image)]
                ELSE [estim EXCEPT !.extracted2 = extract(estim.image)]
    /\ UNCHANGED exceptEst

NextEstimate ==
    \/ EstimateCall
    \/ ExtractCall

SpecEstimate == InitEstimate /\ [][NextEstimate]_vars

StrictlyInside(v) == v > 5 /\ v < 250

(* the runs of the input whose two values are both strictly inside *)
InsideRuns(pairs) == SelectSeq(pairs, LAMBDA r : StrictlyInside(r.x) /\ StrictlyInside(r.y))

SampleOf(call, pairs) ==
    LET ins == InsideRuns(pairs)
        total == SumSeq([i \in DOMAIN ins |-> ins[i].n])
    IN  /\ Len(call.x) = Len(ins)
        /\ Len(call.y) = Len(ins)
        /\ \A i \in DOMAIN ins :
              /\ call.x[i].v = ins[i].x
              /\ call.y[i].v = ins[i].y
              /\ call.x[i].n = call.y[i].n
              /\ call.x[i].n >= 0
              /\ call.x[i].n <= ins[i].n
        /\ len(call.x) = IF total > 10000 THEN 10000 ELSE total

C15_FilteredCappedSample ==
    estim # NoEst =>
        /\ estim.first # NoCall => SampleOf(estim.first, estim.pairs)
        /\ estim.second # NoCall => SampleOf(estim.second, estim.pairs)

(* a call on 10,001 pairs inside and some outside: 10,000 are drawn, one   *)
(* of them from the short run                                              *)
C15_Witness ==
    /\ estim # NoEst
    /\ estim.first # NoCall
    /\ len(filtered(estim.pairs)) = 10001
    /\ len(estim.first.x) = 10000
    /\ \E i \in DOMAIN estim.first.x : estim.first.x[i].n = 1

(***************************************************************************)
(* load_image_pair, lines 57-80, and its caller process_single_image,      *)
(* lines 99-112.  An image file is held by its mode and size; an array by  *)
(* its shape.                                                              *)
(***************************************************************************)
MaxSide == 2

FileModes == {"RGB", "RGBA", "L", "P", "CMYK"}

ImageFile(e, m, w, h) == [exists |-> e, mode |-> m, width |-> w, height |-> h]

(* the number of bands of a PIL mode *)
bands(m) ==
    CASE m = "L" -> 1
      [] m = "P" -> 1
      [] m = "RGB" -> 3
      [] m = "RGBA" -> 4
      [] m = "CMYK" -> 4

(* image.convert("RGB") if image.mode == "RGBA", lines 66-69 *)
convert_rgba_to_rgb(img) == IF img.mode = "RGBA" THEN [img EXCEPT !.mode = "RGB"] ELSE img

(* image.resize(target_size, LANCZOS), lines 76-77 *)
resize(img, w, h) == [img EXCEPT !.width = w, !.height = h]

(* np.array(image).shape, line 80 *)
shape(img) ==
    IF bands(img.mode) = 1 THEN <<img.height, img.width>>
    ELSE <<img.height, img.width, bands(img.mode)>>

load_image_pair(original_file, ideal_file) ==
    IF ~original_file.exists \/ ~ideal_file.exists THEN [outcome |-> "none"]
    ELSE LET original == convert_rgba_to_rgb(original_file)
             ideal == convert_rgba_to_rgb(ideal_file)
             differ == <<original.width, original.height>> # <<ideal.width, ideal.height>>
             min_width == Min2(original.width, ideal.width)
             min_height == Min2(original.height, ideal.height)
         IN  [outcome |-> "pair",
              original |-> shape(IF differ THEN resize(original, min_width, min_height)
                                 ELSE original),
              ideal |-> shape(IF differ THEN resize(ideal, min_width, min_height)
                              ELSE ideal)]

(* len(arr.flatten()) *)
RECURSIVE size(_)
size(sh) == IF sh = <<>> THEN 1 ELSE Head(sh) * size(Tail(sh))

(* estimate_tone_parameters on the two arrays: the element-wise mask of    *)
(* line 34 and the boolean indexing of lines 35-36 need flattened arrays   *)
(* of equal length, else numpy raises                                      *)
estimate_outcome(original, ideal) ==
    IF size(original) = size(ideal) THEN "fitted" ELSE "raise"

InitLoad ==
    /\ IdleTone /\ IdleTrain
    /\ IdleRoute /\ IdleEst /\ IdlePrep /\ IdleContainer /\ IdleGui
    /\ IdleMore
    /\ \E eo, ei \in BOOLEAN, mo, mi \in FileModes, wo, ho, wi, hi \in 1..MaxSide :
          load = [state |-> "start",
                  original_file |-> ImageFile(eo, mo, wo, ho),
                  ideal_file |-> ImageFile(ei, mi, wi, hi),
                  pair |-> [outcome |-> "none"],
                  estimated |-> "none"]

(* pair = load_image_pair(original_path, ideal_path), line 104 *)
LoadImagePair ==
    /\ load # NoLoad
    /\ load.state = "start"
    /\ load' = [load EXCEPT !.state = IF load_image_pair(load.original_file,
                                                          load.ideal_file).outcome = "none"
                                       THEN "skipped" ELSE "loaded",
                            !.pair = load_image_pair(load.original_file, load.ideal_file)]
    /\ UNCHANGED exceptLoad

(* original_arr, ideal_arr = pair; estimate_tone_parameters(...), lines 108-112 *)
EstimatePair ==
    /\ load # NoLoad
    /\ load.state = "loaded"
    /\ load' = [load EXCEPT !.state = "estimated",
                            !.estimated = estimate_outcome(load.pair.original, load.pair.ideal)]
    /\ UNCHANGED exceptLoad

NextLoad ==
    \/ LoadImagePair
    \/ EstimatePair

SpecLoad == InitLoad /\ [][NextLoad]_vars

(***************************************************************************)
(* C16. Every pair of arrays passed to estimate_tone_parameters is a       *)
(* same-size RGB pair: for every combination of modes and sizes,           *)
(* load_image_pair returns two arrays of shape (min height, min width, 3). *)
(***************************************************************************)
C16_SameSizeRGBPair ==
    (load # NoLoad /\ load.state \in {"loaded", "estimated"}) =>
        LET sh == <<Min2(load.original_file.height, load.ideal_file.height),
                    Min2(load.original_file.width, load.ideal_file.width), 3>>
        IN  load.pair.original = sh /\ load.pair.ideal = sh

(***************************************************************************)
(* scripts/preprocess_training_data.py: the main thread, the               *)
(* background-removal thread and the save thread, with the two queues and  *)
(* the classification_done event.  A queue.Queue counts one unfinished     *)
(* task per put, the None sentinel included, and join() returns when the   *)
(* count is 0.  Images are held by their index in image_files.             *)
(***************************************************************************)
PrepViews == {"front", "tag"}

(* the sentinel, and the item (path, image) of file i *)
None == <<>>
Item(i) == <<i>>

InitPrep ==
    /\ IdleTone /\ IdleTrain
    /\ IdleRoute /\ IdleEst /\ IdleLoad /\ IdleContainer /\ IdleGui
    /\ IdleMore
    /\ \E dir \in BOOLEAN, gpu \in BOOLEAN,
          vs \in UNION {[1..n -> PrepViews] : n \in 0..MaxImages} :
          prep = [main |-> "start", dir_exists |-> dir, gpu |-> gpu, views |-> vs,
                  i |-> 0, classification_done |-> FALSE,
                  bg |-> "off", switched_to_gpu |-> FALSE, bg_queue |-> <<>>,
                  save |-> "off", save_queue |-> <<>>, unfinished_tasks |-> 0,
                  saved |-> {}, summary |-> FALSE,
                  waiting |-> <<>>, removed_on |-> <<>>, switch_calls |-> 0]

(* main, lines 106-144: the early returns, or the start of the two threads *)
PrepStart ==
    /\ prep # NoPrep
    /\ prep.main = "start"
    /\ prep' = IF ~prep.dir_exists \/ prep.views = <<>>
               THEN [prep EXCEPT !.main = "returned"]
               ELSE [prep EXCEPT !.main = "classify", !.bg = "check", !.save = "get"]
    /\ UNCHANGED exceptPrep

(* one iteration of the classification loop, lines 156-177 *)
PrepClassify ==
    /\ prep # NoPrep
    /\ prep.main = "classify"
    /\ prep.i < Len(prep.views)
    /\ LET i == prep.i + 1
       IN  prep' = IF is_front_or_back(prep.views[i])
                   THEN [prep EXCEPT !.i = i, !.bg_queue = Append(@, Item(i))]
                   ELSE [prep EXCEPT !.i = i]
    /\ UNCHANGED exceptPrep

(* classification_done.set(), line 180 *)
PrepClassificationDone ==
    /\ prep # NoPrep
    /\ prep.main = "classify"
    /\ prep.i = Len(prep.views)
    /\ prep' = [prep EXCEPT !.main = "join_bg", !.classification_done = TRUE,
                            !.waiting = prep.bg_queue]
    /\ UNCHANGED exceptPrep

(* the rest of main, lines 184-203: bg_thread.join(), save_queue.put(None), *)
(* save_queue.join(), the summary.  Each wait is passed when its condition  *)
(* holds.                                                                   *)
PrepWaitAndSummary ==
    /\ prep # NoPrep
    /\ IF prep.main = "join_bg"
       THEN /\ prep.bg = "exited"
            /\ prep' = [prep EXCEPT !.main = "join_save",
                                    !.save_queue = Append(@, None),
                                    !.unfinished_tasks = @ + 1]
       ELSE /\ prep.main = "join_save"
            /\ prep.unfinished_tasks = 0
            /\ prep' = [prep EXCEPT !.main = "returned", !.summary = TRUE]
    /\ UNCHANGED exceptPrep

(* bg_removal_worker, lines 58-59: the exit test at the top of the loop *)
BgCheck ==
    /\ prep # NoPrep
    /\ prep.bg = "check"
    /\ prep' = IF prep.classification_done /\ prep.bg_queue = <<>>
               THEN [prep EXCEPT !.bg = "exited"]
               ELSE [prep EXCEPT !.bg = "get"]
    /\ UNCHANGED exceptPrep

(* BiRefNetRemover(device="cpu"), line 127, and remover.switch_device,     *)
(* line 69: the device the remover works on                                *)
device(switched_to_gpu) == IF switched_to_gpu THEN "gpu" ELSE "cpu"

(* bg_queue.get returns an item: background removal, save_queue.put, lines *)
(* 63 and 73-86; prep.removed_on records the device each image's           *)
(* background was removed on                                               *)
BgRemove ==
    /\ prep # NoPrep
    /\ prep.bg = "get"
    /\ prep.bg_queue # <<>>
    /\ prep' = [prep EXCEPT !.bg = "check",
                            !.bg_queue = Tail(@),
                            !.save_queue = Append(@, Head(prep.bg_queue)),
                            !.unfinished_tasks = @ + 1,
                            !.removed_on = Append(@, <<Head(prep.bg_queue)[1],
                                                       device(prep.switched_to_gpu)>>)]
    /\ UNCHANGED exceptPrep

(* bg_queue.get times out on the empty queue: the except branch, lines 64-71 *)
BgTimeout ==
    /\ prep # NoPrep
    /\ prep.bg = "get"
    /\ prep.bg_queue = <<>>
    /\ prep' = IF prep.classification_done /\ ~prep.switched_to_gpu /\ prep.gpu
               THEN [prep EXCEPT !.bg = "check", !.switched_to_gpu = TRUE,
                                 !.switch_calls = @ + 1]
               ELSE [prep EXCEPT !.bg = "check"]
    /\ UNCHANGED exceptPrep

(* save_worker, lines 95-101: one item taken from the queue *)
task_done(item, n) == IF item = None THEN n ELSE n - 1

SaveGet ==
    /\ prep # NoPrep
    /\ prep.save = "get"
    /\ prep.save_queue # <<>>
    /\ LET item == Head(prep.save_queue)
       IN  prep' = [prep EXCEPT !.save_queue = Tail(@),
                                !.save = IF item = None THEN "exited" ELSE "get",
                                !.saved = IF item = None THEN @ ELSE @ \cup {item[1]},
                                !.unfinished_tasks = task_done(item, @)]
    /\ UNCHANGED exceptPrep

NextPrep ==
    \/ PrepStart
    \/ PrepClassify
    \/ PrepClassificationDone
    \/ PrepWaitAndSummary
    \/ BgCheck
    \/ BgRemove
    \/ BgTimeout
    \/ SaveGet

SpecPrep == InitPrep /\ [][NextPrep]_vars

(***************************************************************************)
(* C18. main terminates: once the save worker has saved every queued image *)
(* and taken the sentinel, save_queue.join() returns (no unfinished task   *)
(* is left) and the summary is printed.                                    *)
(***************************************************************************)
FrontBackFiles == {i \in DOMAIN prep.views : prep.views[i] \in {"front", "back"}}

C18_JoinReturnsAfterSaves ==
    (/\ prep # NoPrep
     /\ prep.main = "join_save"
     /\ prep.save = "exited"
     /\ prep.saved = FrontBackFiles) => prep.unfinished_tasks = 0

(***************************************************************************)
(* gui/di/container.py: the DIContainer singleton, with the start-up of    *)
(* FrgeekStudioApp (app.py, lines 30-47 and 74-102) and the construction   *)
(* of a ProjectCreationWorker (project_creation.py, lines 58-62), which    *)
(* resolve their services from it.  A service is held by its type name.    *)
(***************************************************************************)
ImageProcessingServices ==
    {"BiRefNetRemover", "QwenVLClassifier", "PillowCenterer", "PillowEdgeRefiner",
     "PillowShadowAdder"}

ServiceTypes == ImageProcessingServices \cup {"NumpyToneAdjuster"}

(* the inject() calls of each screen's constructor, in the order in which  *)
(* _register_screens builds the screens                                    *)
ScreenInjects ==
    <<[screen |-> "DashboardScreen", injects |-> <<>>],
      [screen |-> "CreateProjectScreen", injects |-> <<>>],
      [screen |-> "LoadingScreen", injects |-> <<>>],
      [screen |-> "ProjectDetailScreen", injects |-> <<>>],
      [screen |-> "ImageEditorScreen",
       injects |-> <<"BiRefNetRemover", "PillowCenterer", "PillowEdgeRefiner",
                     "NumpyToneAdjuster">>]>>

(* the inject() calls of ProjectCreationWorker.__init__ *)
WorkerInjects ==
    <<"QwenVLClassifier", "BiRefNetRemover", "PillowCenterer", "PillowEdgeRefiner",
      "PillowShadowAdder">>

RECURSIVE Concat(_)
Concat(ss) == IF ss = <<>> THEN <<>> ELSE Head(ss) \o Concat(Tail(ss))

(* DIContainer.resolve, lines 71-97, on the container c *)
resolve(c, interface) ==
    IF interface \in c._instances THEN [c EXCEPT !.raised = FALSE]
    ELSE IF interface \notin c._factories THEN [c EXCEPT !.raised = TRUE]
    ELSE [c EXCEPT !._instances = @ \cup {interface}, !.raised = FALSE]

(* a constructor's inject() calls in order; the first KeyError ends it *)
RECURSIVE inject_all(_, _)
inject_all(c, interfaces) ==
    IF interfaces = <<>> THEN [c EXCEPT !.raised = FALSE]
    ELSE LET r == resolve(c, Head(interfaces))
         IN  IF r.raised THEN r ELSE inject_all(r, Tail(interfaces))

InitContainer ==
    /\ IdleTone /\ IdleTrain
    /\ IdleRoute /\ IdleEst /\ IdleLoad /\ IdlePrep /\ IdleGui
    /\ IdleMore
    /\ container = [state |-> "new", _factories |-> {}, _instances |-> {},
                    raised |-> FALSE, worker |-> "none"]

(* register_singleton, lines 49-60 *)
RegisterSingleton(interface) ==
    /\ container # NoContainer
    /\ container' = [container EXCEPT !._factories = @ \cup {interface}]
    /\ UNCHANGED exceptContainer

(* register_instance, lines 62-69 *)
RegisterInstance(interface) ==
    /\ container # NoContainer
    /\ container' = [container EXCEPT !._instances = @ \cup {interface}]
    /\ UNCHANGED exceptContainer

(* a call of inject(interface), lines 119-128 *)
Inject(interface) ==
    /\ container # NoContainer
    /\ container' = [resolve(container, interface) EXCEPT !.raised = container.raised]
    /\ UNCHANGED exceptContainer

(* register_image_processing_services, lines 131-150, called at app.py:41 *)
RegisterImageProcessingServices ==
    /\ container # NoContainer
    /\ container.state = "new"
    /\ container' = [container EXCEPT !.state = "registered",
                                      !._instances = @ \cup ImageProcessingServices]
    /\ UNCHANGED exceptContainer

(* _setup_ui and _register_screens, app.py:44 and 74-102 *)
RegisterScreens ==
    /\ container # NoContainer
    /\ container.state = "registered"
    /\ LET r == inject_all(container,
                           Concat([i \in DOMAIN ScreenInjects |-> ScreenInjects[i].injects]))
       IN  container' = [r EXCEPT !.state = IF r.raised THEN "KeyError" ELSE "built"]
    /\ UNCHANGED exceptContainer

(* ProjectCreationWorker(...), app.py:160-164 *)
CreateWorker ==
    /\ container # NoContainer
    /\ container.state = "built"
    /\ LET r == inject_all(container, WorkerInjects)
       IN  container' = [r EXCEPT !.worker = IF r.raised THEN "KeyError" ELSE "created"]
    /\ UNCHANGED exceptContainer

NextContainer ==
    \/ \E interface \in ServiceTypes : RegisterSingleton(interface)
    \/ \E interface \in ServiceTypes : RegisterInstance(interface)
    \/ \E interface \in ServiceTypes : Inject(interface)
    \/ RegisterImageProcessingServices
    \/ RegisterScreens
    \/ CreateWorker

SpecContainer == InitContainer /\ [][NextContainer]_vars

(***************************************************************************)
(* C19. Every service type that a screen or the worker obtains through     *)
(* inject() in its constructor has been registered by                      *)
(* register_image_processing_services before the screens are built, so     *)
(* start-up and worker creation raise no KeyError.                         *)
(***************************************************************************)
C19_StartupResolvesEverything ==
    container # NoContainer =>
        /\ container.state # "KeyError"
        /\ container.worker # "KeyError"

(***************************************************************************)
(* gui/app.py and gui/services/navigation.py: the handlers of              *)
(* FrgeekStudioApp once its constructor has returned and the dashboard is  *)
(* shown, with the ProjectCreationWorker threads it starts.  A worker is   *)
(* held by an identity in 1..MaxWorkers; gui.running is the set of workers *)
(* whose run() has not yet emitted finished or error.                      *)
(***************************************************************************)
MaxWorkers == 2

ProjectIds == {1, 2}

ImageIds == {1, 2}

(* the percentages of emit_progress in ProjectCreationWorker.run: 5 after  *)
(* the project is created, 100 at the end                                  *)
Percents == {5, 100}

NoParams == <<>>
ProjectParams(project_id) == <<"project_id", project_id>>
ImageParams(image_id) == <<"image_id", image_id>>

NoWorker == <<>>
Worker(w) == <<w>>

(* _current_screen before the first navigation, line 49 *)
NoScreen == "None"

(* NavigationService.navigate_to, lines 62-97 *)
navigate_to(nav, screen_id, parameters, clear_history) ==
    [history |-> IF clear_history THEN <<>>
                 ELSE IF nav.current # NoScreen
                 THEN Append(nav.history, <<nav.current, nav.params>>)
                 ELSE nav.history,
     current |-> screen_id, params |-> parameters]

(* go_back taking the oldest entry of the history instead of the newest *)
go_back_oldest(nav) ==
    IF nav.history = <<>> THEN nav
    ELSE [history |-> Tail(nav.history),
          current |-> nav.history[1][1],
          params |-> nav.history[1][2]]

(* NavigationService.go_back, lines 99-119 *)
go_back(nav) ==
    IF nav.history = <<>> THEN nav
    ELSE [history |-> SubSeq(nav.history, 1, Len(nav.history) - 1),
          current |-> nav.history[Len(nav.history)][1],
          params |-> nav.history[Len(nav.history)][2]]

(* NavigationService.can_go_back, which _on_screen_changed hands to the    *)
(* header's show_back_button, app.py:113-115                               *)
can_go_back(nav) == Len(nav.history) > 0

InitGui ==
    /\ IdleTone /\ IdleTrain
    /\ IdleRoute /\ IdleEst /\ IdleLoad /\ IdlePrep /\ IdleContainer
    /\ IdleMore
    /\ gui = [state |-> "shown",
              nav |-> [history |-> <<>>, current |-> "DASHBOARD", params |-> NoParams],
              _current_worker |-> NoWorker,
              running |-> {},
              loading_percent |-> 0]

(* the header's back button, shown when can_go_back: _on_back_clicked *)
OnBackClicked ==
    /\ gui # NoGui
    /\ can_go_back(gui.nav)
    /\ gui' = [gui EXCEPT !.nav = go_back(gui.nav)]
    /\ UNCHANGED exceptGui

(* the dashboard's create button: _on_create_project *)
OnCreateProject ==
    /\ gui # NoGui
    /\ gui.nav.current = "DASHBOARD"
    /\ gui' = [gui EXCEPT !.nav = navigate_to(gui.nav, "CREATE_PROJECT", NoParams, FALSE)]
    /\ UNCHANGED exceptGui

(* the create screen's cancel button: _on_create_project_cancelled *)
OnCreateProjectCancelled ==
    /\ gui # NoGui
    /\ gui.nav.current = "CREATE_PROJECT"
    /\ gui' = [gui EXCEPT !.nav = go_back(gui.nav)]
    /\ UNCHANGED exceptGui

(* the create screen's create button: _on_project_creation_requested,      *)
(* lines 139-170                                                           *)
OnProjectCreationRequested ==
    /\ gui # NoGui
    /\ gui.nav.current = "CREATE_PROJECT"
    /\ Cardinality(gui.running) < MaxWorkers
    /\ LET w == CHOOSE w \in 1..MaxWorkers :
                   w \notin gui.running /\ \A v \in 1..(w - 1) : v \in gui.running
       IN  gui' = [gui EXCEPT !.loading_percent = 0,
                              !.nav = navigate_to(gui.nav, "LOADING", NoParams, FALSE),
                              !._current_worker = Worker(w),
                              !.running = @ \cup {w}]
    /\ UNCHANGED exceptGui

(* a worker's run() emits progress: _on_worker_progress, lines 172-176 *)
OnWorkerProgress(w, percent) ==
    /\ gui # NoGui
    /\ w \in gui.running
    /\ gui' = [gui EXCEPT !.loading_percent = percent]
    /\ UNCHANGED exceptGui

(* a worker's run() emits finished: _on_worker_finished, lines 178-186 *)
OnWorkerFinished(w, project_id) ==
    /\ gui # NoGui
    /\ w \in gui.running
    /\ gui' = [gui EXCEPT !.running = @ \ {w},
                          !._current_worker = NoWorker,
                          !.nav = navigate_to(gui.nav, "PROJECT_DETAIL",
                                              ProjectParams(project_id), TRUE)]
    /\ UNCHANGED exceptGui

(* a worker's run() emits error: _on_worker_error, lines 188-192 *)
OnWorkerError(w) ==
    /\ gui # NoGui
    /\ w \in gui.running
    /\ gui' = [gui EXCEPT !.running = @ \ {w},
                          !._current_worker = NoWorker,
                          !.nav = navigate_to(gui.nav, "DASHBOARD", NoParams, TRUE)]
    /\ UNCHANGED exceptGui

(* a project card of the dashboard: _on_project_selected *)
OnProjectSelected(project_id) ==
    /\ gui # NoGui
    /\ gui.nav.current = "DASHBOARD"
    /\ gui' = [gui EXCEPT !.nav = navigate_to(gui.nav, "PROJECT_DETAIL",
                                              ProjectParams(project_id), FALSE)]
    /\ UNCHANGED exceptGui

(* the detail screen's back: _on_project_detail_back *)
OnProjectDetailBack ==
    /\ gui # NoGui
    /\ gui.nav.current = "PROJECT_DETAIL"
    /\ gui' = [gui EXCEPT !.nav = navigate_to(gui.nav, "DASHBOARD", NoParams, TRUE)]
    /\ UNCHANGED exceptGui

(* the detail screen's edit button: _on_image_edit_requested *)
OnImageEditRequested(image_id) ==
    /\ gui # NoGui
    /\ gui.nav.current = "PROJECT_DETAIL"
    /\ gui' = [gui EXCEPT !.nav = navigate_to(gui.nav, "IMAGE_EDITOR",
                                              ImageParams(image_id), FALSE)]
    /\ UNCHANGED exceptGui

(* the editor's back: _on_image_editor_back *)
OnImageEditorBack ==
    /\ gui # NoGui
    /\ gui.nav.current = "IMAGE_EDITOR"
    /\ gui' = [gui EXCEPT !.nav = go_back(gui.nav)]
    /\ UNCHANGED exceptGui

NextGui ==
    \/ OnBackClicked
    \/ OnCreateProject
    \/ OnCreateProjectCancelled
    \/ OnProjectCreationRequested
    \/ \E w \in 1..MaxWorkers, percent \in Percents : OnWorkerProgress(w, percent)
    \/ \E w \in 1..MaxWorkers, project_id \in ProjectIds : OnWorkerFinished(w, project_id)
    \/ \E w \in 1..MaxWorkers : OnWorkerError(w)
    \/ \E project_id \in ProjectIds : OnProjectSelected(project_id)
    \/ OnProjectDetailBack
    \/ \E image_id \in ImageIds : OnImageEditRequested(image_id)
    \/ OnImageEditorBack

SpecGui == InitGui /\ [][NextGui]_vars

(***************************************************************************)
(* C20. At most one ProjectCreationWorker runs at any time, and the        *)
(* application's reference to a running worker is neither replaced nor     *)
(* cleared before that worker has emitted finished or error: every running *)
(* worker is the one that _current_worker refers to.                       *)
(***************************************************************************)
C20_AtMostOneWorker ==
    gui # NoGui =>
        /\ Cardinality(gui.running) <= 1
        /\ \A w \in gui.running : gui._current_worker = Worker(w)

(***************************************************************************)
(* C22. The side cache is written only by a run that collected at least    *)
(* the minimum of 10 samples: a run that built its dataset from the        *)
(* directories (order is set) and wrote a cache has at least 10 samples in *)
(* it, and a run that stops for insufficient data leaves no cache behind.  *)
(***************************************************************************)
C22_CacheOnlyFromFullRun ==
    (order # <<>> /\ cache # NoFile) =>
        /\ Len(cache.samples) >= 10
        /\ pc # "insufficient"

(***************************************************************************)
(* C28. Training is reproducible: with the same image pairs and no cache,  *)
(* every run writes the samples to the cache in the same order and fits on *)
(* the same train/test partition, whatever the order in which the worker   *)
(* threads finish.  A run whose futures complete in submission order is    *)
(* one of the runs, so every run must agree with it.                       *)
(***************************************************************************)
RECURSIVE SubmissionOrder(_)
SubmissionOrder(n) ==
    IF n = 0 THEN <<>>
    ELSE IF kind[n] = "ok" THEN Append(SubmissionOrder(n - 1), process_single_image(n, "ok"))
    ELSE SubmissionOrder(n - 1)

C28_SameOrderSamePartition ==
    (order # <<>> /\ pc \in AfterDataset /\ cache # NoFile) =>
        LET r == SubmissionOrder(Len(kind))
            names == [i \in DOMAIN r |-> r[i].name]
            X == [i \in DOMAIN r |-> r[i].features]
            y == [i \in DOMAIN r |-> r[i].params]
        IN  /\ cached_names(cache.samples) = names
            /\ pc \in {"dump", "done"} => model = fit(X, y)

(***************************************************************************)
(* gui/workers/project_creation.py: one run of ProjectCreationWorker.run,  *)
(* lines 64-107, with _process_product, lines 119-148.  Any step that      *)
(* touches the disk, the database or a model may raise; an interruption    *)
(* (QThread.requestInterruption) may arrive at any time.  creation.done    *)
(* lists, for each product that _process_product returned from, its id     *)
(* and the number of its images that were processed.                       *)
(***************************************************************************)
ProductIds == {1, 2}

(* effective_ids, lines 71-74 *)
effective_ids(product_ids, exclude_ids) ==
    SelectSeq(product_ids, LAMBDA pid : pid \notin exclude_ids)

InitCreation ==
    /\ IdleTone /\ IdleTrain /\ IdleFirst
    /\ IdleEditor /\ IdlePreview /\ IdleNav /\ IdleResolving
    /\ \E ids \in UNION {[1..n -> ProductIds] : n \in 0..MaxProducts},
          ex \in SUBSET ProductIds, n \in 0..MaxImages :
          creation = [state |-> "start", product_ids |-> ids, exclude_ids |-> ex,
                      n_images |-> n, interrupted |-> FALSE,
                      i |-> 0, j |-> 0, done |-> <<>>,
                      finished |-> 0, error |-> 0, raised |-> FALSE]

(* requestInterruption() from another thread *)
RequestInterruption ==
    /\ creation # NoCreation
    /\ creation.state \in {"start", "loop", "product"}
    /\ ~creation.interrupted
    /\ creation' = [creation EXCEPT !.interrupted = TRUE]
    /\ UNCHANGED exceptCreation

(* run, lines 66-87: up to the start of the product loop *)
RunStart ==
    /\ creation # NoCreation
    /\ creation.state = "start"
    /\ \E raise \in BOOLEAN :
          creation' =
              IF creation.interrupted THEN [creation EXCEPT !.state = "returned"]
              ELSE IF raise
              THEN [creation EXCEPT !.state = "returned", !.raised = TRUE, !.error = @ + 1]
              ELSE IF effective_ids(creation.product_ids, creation.exclude_ids) = <<>>
              THEN [creation EXCEPT !.state = "returned", !.finished = @ + 1]
              ELSE [creation EXCEPT !.state = "loop"]
    /\ UNCHANGED exceptCreation

(* the head of one iteration of the product loop, lines 90-95, and the     *)
(* start of _process_product, lines 127-142; after the last iteration      *)
(* lines 99-102                                                            *)
NextProduct ==
    /\ creation # NoCreation
    /\ creation.state = "loop"
    /\ \E raise \in BOOLEAN :
          creation' =
              IF creation.i = Len(effective_ids(creation.product_ids, creation.exclude_ids))
              THEN [creation EXCEPT !.state = "returned", !.finished = @ + 1]
              ELSE IF creation.interrupted THEN [creation EXCEPT !.state = "returned"]
              ELSE IF raise
              THEN [creation EXCEPT !.state = "returned", !.raised = TRUE, !.error = @ + 1]
              ELSE [creation EXCEPT !.state = "product", !.j = 0]
    /\ UNCHANGED exceptCreation

(* one iteration of the image loop of _process_product, lines 144-148, or  *)
(* its end and the rest of the product loop's iteration, line 97           *)
ProcessImage ==
    /\ creation # NoCreation
    /\ creation.state = "product"
    /\ LET item_id == effective_ids(creation.product_ids, creation.exclude_ids)[creation.i + 1]
       IN  \E raise \in BOOLEAN :
              creation' =
                  IF creation.j = creation.n_images \/ creation.interrupted
                  THEN [creation EXCEPT !.state = "loop", !.i = @ + 1,
                                        !.done = Append(@, <<item_id, creation.j>>)]
                  ELSE IF raise
                  THEN [creation EXCEPT !.state = "returned", !.raised = TRUE,
                                        !.error = @ + 1]
                  ELSE [creation EXCEPT !.j = @ + 1]
    /\ UNCHANGED exceptCreation

NextCreation ==
    \/ RequestInterruption
    \/ RunStart
    \/ NextProduct
    \/ ProcessImage

SpecCreation == InitCreation /\ [][NextCreation]_vars

(***************************************************************************)
(* C25. In every run finished is emitted at most once, only after each     *)
(* product id of product_ids that is not in exclude_ids has been processed *)
(* in list order, and never together with error; a run in which an         *)
(* exception is raised emits error and not finished.                       *)
(***************************************************************************)
Wanted == SelectSeq(creation.product_ids, LAMBDA pid : pid \notin creation.exclude_ids)

C25_FinishedOnceAfterAll ==
    creation # NoCreation =>
        /\ creation.finished <= 1
        /\ creation.finished = 1 =>
              /\ creation.error = 0
              /\ creation.done = [k \in DOMAIN Wanted |-> <<Wanted[k], creation.n_images>>]
        /\ creation.raised => (creation.error = 1 /\ creation.finished = 0)

(***************************************************************************)
(* gui/services/navigation.py: a NavigationService on which the five       *)
(* screens of app.py:78-105 are registered, driven by any sequence of      *)
(* navigate_to and go_back calls.  navsvc.nav is the service's state,      *)
(* navsvc.prev its state before the last call, navsvc.returned what the    *)
(* last go_back returned, and navsvc.log the calls made so far, each with  *)
(* the screen and parameters that were current when it returned.           *)
(***************************************************************************)
Screen == {"DASHBOARD", "CREATE_PROJECT", "LOADING", "PROJECT_DETAIL", "IMAGE_EDITOR"}

(* the screens and parameters the calls of the sequence use *)
CalledScreens == {"DASHBOARD", "PROJECT_DETAIL", "IMAGE_EDITOR"}
CalledParams == {NoParams, ProjectParams(1)}

InitNav ==
    /\ IdleTone /\ IdleTrain /\ IdleFirst
    /\ IdleEditor /\ IdlePreview /\ IdleResolving /\ IdleCreation
    /\ navsvc = [state |-> "constructed",
                 nav |-> [history |-> <<>>, current |-> NoScreen, params |-> NoParams],
                 prev |-> [history |-> <<>>, current |-> NoScreen, params |-> NoParams],
                 returned |-> FALSE,
                 log |-> <<>>]

NavigateTo(screen_id, parameters, clear_history) ==
    /\ navsvc # NoNav
    /\ Len(navsvc.log) < MaxCalls
    /\ LET after == navigate_to(navsvc.nav, screen_id, parameters, clear_history)
       IN  navsvc' = [navsvc EXCEPT
                         !.nav = after,
                         !.prev = navsvc.nav,
                         !.returned = FALSE,
                         !.log = Append(@, [op |-> "navigate_to", clear |-> clear_history,
                                            returned |-> FALSE,
                                            current |-> after.current,
                                            params |-> after.params])]
    /\ UNCHANGED exceptNav

GoBack ==
    /\ navsvc # NoNav
    /\ Len(navsvc.log) < MaxCalls
    /\ LET after == go_back(navsvc.nav)
           ret == navsvc.nav.history # <<>>
       IN  navsvc' = [navsvc EXCEPT
                         !.nav = after,
                         !.prev = navsvc.nav,
                         !.returned = ret,
                         !.log = Append(@, [op |-> "go_back", clear |-> FALSE,
                                            returned |-> ret,
                                            current |-> after.current,
                                            params |-> after.params])]
    /\ UNCHANGED exceptNav

NextNav ==
    \/ \E screen_id \in CalledScreens, parameters \in CalledParams, clear_history \in BOOLEAN :
          NavigateTo(screen_id, parameters, clear_history)
    \/ GoBack

SpecNav == InitNav /\ [][NextNav]_vars

(***************************************************************************)
(* C23. The navigation history is a stack.  go_back returns True exactly   *)
(* when can_go_back() was True before the call, and then the current       *)
(* screen and parameters are those that were current right before the most *)
(* recent navigate_to without clear_history that has not been undone yet;  *)
(* with an empty history go_back returns False and changes nothing; after  *)
(* navigate_to with clear_history=True the history is empty.               *)
(* NotUndone(log) lists the positions in the log of the navigate_to calls  *)
(* without clear_history that no later go_back has undone and no later     *)
(* clear_history has dropped.                                              *)
(***************************************************************************)
RECURSIVE NotUndone(_)
NotUndone(log) ==
    IF log = <<>> THEN <<>>
    ELSE LET e == log[Len(log)]
             before == NotUndone(SubSeq(log, 1, Len(log) - 1))
         IN  IF e.op = "navigate_to"
             THEN IF e.clear THEN <<>> ELSE Append(before, Len(log))
             ELSE IF e.returned THEN SubSeq(before, 1, Len(before) - 1)
             ELSE before

CurrentBefore(log, k) ==
    IF k = 1 THEN <<NoScreen, NoParams>> ELSE <<log[k - 1].current, log[k - 1].params>>

C23_HistoryIsStack ==
    (navsvc # NoNav /\ navsvc.log # <<>>) =>
        LET n == Len(navsvc.log)
            e == navsvc.log[n]
            earlier == SubSeq(navsvc.log, 1, n - 1)
            pending == NotUndone(earlier)
        IN  /\ (e.op = "go_back") =>
                  /\ navsvc.returned = can_go_back(navsvc.prev)
                  /\ navsvc.returned =>
                        /\ pending # <<>>
                        /\ <<navsvc.nav.current, navsvc.nav.params>>
                              = CurrentBefore(navsvc.log, pending[Len(pending)])
                  /\ ~navsvc.returned => navsvc.nav = navsvc.prev
            /\ (e.op = "navigate_to" /\ e.clear) => navsvc.nav.history = <<>>

(* a go_back that returned True with two entries in the history *)
C23_Witness ==
    /\ navsvc # NoNav
    /\ navsvc.log # <<>>
    /\ navsvc.log[Len(navsvc.log)].op = "go_back"
    /\ navsvc.returned
    /\ Len(navsvc.prev.history) = 2
    /\ navsvc.prev.history[1] # navsvc.prev.history[2]
    /\ navsvc.nav.current # navsvc.prev.current

(***************************************************************************)
(* gui/di/container.py: threads calling DIContainer.resolve, lines 71-97,  *)
(* for one interface, line by line.  resolving.instance is the entry of    *)
(* _instances (<<>> while there is none, <<k>> for the object the k-th     *)
(* invocation of the factory returned), resolving.lock the holder of       *)
(* _instance_lock (0 when free), resolving.got[t] the objects thread t's   *)
(* calls returned, resolving.raised[t] the KeyErrors its calls raised.     *)
(***************************************************************************)
Threads == 1..MaxThreads

InitResolving ==
    /\ IdleTone /\ IdleTrain /\ IdleFirst
    /\ IdleEditor /\ IdlePreview /\ IdleNav /\ IdleCreation
    /\ resolving = [state |-> "constructed",
                    registered |-> FALSE,
                    instance |-> <<>>,
                    invocations |-> 0,
                    lock |-> 0,
                    pc |-> [t \in Threads |-> "idle"],
                    got |-> [t \in Threads |-> <<>>],
                    raised |-> [t \in Threads |-> 0]]

(* register_singleton, lines 49-60 *)
RegisterFactory ==
    /\ resolving # NoResolving
    /\ ~resolving.registered
    /\ resolving' = [resolving EXCEPT !.registered = TRUE]
    /\ UNCHANGED exceptResolving

(* resolve, lines 86-87 *)
ResolveFastPath(t) ==
    /\ resolving # NoResolving
    /\ resolving.pc[t] = "idle"
    /\ Len(resolving.got[t]) + resolving.raised[t] < MaxResolves
    /\ resolving' =
          IF resolving.instance # <<>>
          THEN [resolving EXCEPT !.got[t] = Append(@, resolving.instance[1])]
          ELSE [resolving EXCEPT !.pc[t] = "l89"]
    /\ UNCHANGED exceptResolving

(* resolve, lines 89-90 *)
ResolveCheckFactory(t) ==
    /\ resolving # NoResolving
    /\ resolving.pc[t] = "l89"
    /\ resolving' =
          IF ~resolving.registered
          THEN [resolving EXCEPT !.pc[t] = "idle", !.raised[t] = @ + 1]
          ELSE [resolving EXCEPT !.pc[t] = "l93"]
    /\ UNCHANGED exceptResolving

(* a lock that lets every thread in *)
can_acquire_always(r) == TRUE

(* threading.Lock: with self._instance_lock, line 93 *)
can_acquire(r) == r.lock = 0

ResolveAcquire(t) ==
    /\ resolving # NoResolving
    /\ resolving.pc[t] = "l93"
    /\ can_acquire(resolving)
    /\ resolving' = [resolving EXCEPT !.lock = t, !.pc[t] = "l94"]
    /\ UNCHANGED exceptResolving

(* resolve, line 94; leaving the with block releases the lock *)
ResolveSecondCheck(t) ==
    /\ resolving # NoResolving
    /\ resolving.pc[t] = "l94"
    /\ resolving' =
          IF resolving.instance = <<>>
          THEN [resolving EXCEPT !.pc[t] = "l95"]
          ELSE [resolving EXCEPT !.pc[t] = "l97", !.lock = 0]
    /\ UNCHANGED exceptResolving

(* resolve, line 95: the factory runs and its object is stored *)
ResolveCreate(t) ==
    /\ resolving # NoResolving
    /\ resolving.pc[t] = "l95"
    /\ resolving' = [resolving EXCEPT !.invocations = @ + 1,
                                      !.instance = <<resolving.invocations + 1>>,
                                      !.pc[t] = "l97", !.lock = 0]
    /\ UNCHANGED exceptResolving

(* resolve, line 97 *)
ResolveReturn(t) ==
    /\ resolving # NoResolving
    /\ resolving.pc[t] = "l97"
    /\ resolving' = [resolving EXCEPT !.got[t] = Append(@, resolving.instance[1]),
                                      !.pc[t] = "idle"]
    /\ UNCHANGED exceptResolving

NextResolving ==
    \/ RegisterFactory
    \/ \E t \in Threads : ResolveFastPath(t)
    \/ \E t \in Threads : ResolveCheckFactory(t)
    \/ \E t \in Threads : ResolveAcquire(t)
    \/ \E t \in Threads : ResolveSecondCheck(t)
    \/ \E t \in Threads : ResolveCreate(t)
    \/ \E t \in Threads : ResolveReturn(t)

SpecResolving == InitResolving /\ [][NextResolving]_vars

WaitingAtDone == {prep.waiting[k][1] : k \in DOMAIN prep.waiting}

C27_WaitingImagesOnGpu ==
    (prep # NoPrep /\ prep.gpu /\ prep.classification_done) =>
        /\ prep.switch_calls <= 1
        /\ prep.bg = "exited" => prep.switched_to_gpu
        /\ \A k \in DOMAIN prep.removed_on :
              prep.removed_on[k][1] \in WaitingAtDone => prep.removed_on[k][2] = "gpu"

(***************************************************************************)
(* gui/screens/image_editor.py: the image editor's sliders, its debounce   *)
(* timer and the saving of parameters, with the navigation into and out of *)
(* the screen.  Time is counted in steps of 50 ms.  editor.values are the  *)
(* screen's slider fields (one contrast slider and the background toggle), *)
(* editor.records the parameters stored in the database for each image,    *)
(* editor.timer the time left on _preview_timer (-1 while it is stopped).  *)
(* editor.last_change, editor.changed_to, editor.timer_updates and         *)
(* editor.fired record the time and values of the last change, the number  *)
(* of _update_preview calls the timer has made since, and the time and     *)
(* values of the last of them; editor.burst tells whether the last change  *)
(* came while the timer of an earlier change was still running.            *)
(***************************************************************************)
(* _preview_timer.start(150), line 788: 150 ms in steps of 50 ms *)
PreviewDelay == 3

Contrasts == {0, 50}

SliderValues == [contrast : Contrasts, bg : BOOLEAN]

NoFired == [time |-> -1, values |-> [contrast |-> 0, bg |-> TRUE]]

InitEditor ==
    /\ IdleTone /\ IdleTrain /\ IdleFirst
    /\ IdlePreview /\ IdleNav /\ IdleResolving /\ IdleCreation
    /\ \E recs \in [ImageIds -> SliderValues] :
          editor = [state |-> "hidden", image |-> 0,
                    values |-> [contrast |-> 0, bg |-> TRUE],
                    records |-> recs,
                    timer |-> -1, now |-> 0,
                    last_change |-> -1,
                    changed_to |-> [contrast |-> 0, bg |-> TRUE],
                    timer_updates |-> 0,
                    burst |-> FALSE,
                    fired |-> NoFired]

(* a restart that leaves a running timer alone *)
schedule_preview_update_running(timer) == IF timer >= 0 THEN timer ELSE PreviewDelay

(* _schedule_preview_update, lines 785-788 *)
schedule_preview_update(timer) == PreviewDelay

(* a slider or toggle handler, lines 750-783: the field is set and the     *)
(* update is scheduled                                                     *)
on_changed(e, v) ==
    [e EXCEPT !.values = v,
              !.timer = schedule_preview_update(e.timer),
              !.last_change = e.now,
              !.changed_to = v,
              !.timer_updates = 0,
              !.burst = (e.timer >= 0 /\ e.last_change < e.now)]

(* _save_parameters, lines 1087-1099 *)
save_parameters(e) ==
    IF e.image = 0 THEN e ELSE [e EXCEPT !.records[e.image] = e.values]

(* _load_image, lines 813-844: the sliders are set from the record, which  *)
(* runs the handlers of those whose value changes, and the preview is      *)
(* updated at once                                                         *)
load_image(e, image_id) ==
    LET set == IF e.records[image_id] # e.values
               THEN on_changed(e, e.records[image_id]) ELSE e
    IN  [set EXCEPT !.image = image_id]

(* app._on_image_edit_requested: navigate_to(IMAGE_EDITOR, image_id),      *)
(* which calls on_navigate, lines 807-811                                  *)
EditorNavigate(image_id) ==
    /\ editor # NoEditor
    /\ editor.state = "hidden"
    /\ editor' = [load_image(editor, image_id) EXCEPT !.state = "shown"]
    /\ UNCHANGED exceptEditor

(* _on_thumbnail_clicked and _select_image, lines 800-804 and 929-943 *)
ThumbnailClicked(image_id) ==
    /\ editor # NoEditor
    /\ editor.state = "shown"
    /\ image_id # editor.image
    /\ editor' = load_image(save_parameters(editor), image_id)
    /\ UNCHANGED exceptEditor

(* the user moves a slider or flips the toggle *)
SliderChanged(v) ==
    /\ editor # NoEditor
    /\ editor.state = "shown"
    /\ v # editor.values
    /\ v.contrast = editor.values.contrast \/ v.bg = editor.values.bg
    /\ editor' = on_changed(editor, v)
    /\ UNCHANGED exceptEditor

(* the editor's back button: back_requested, app._on_image_editor_back,    *)
(* NavigationService.go_back.  go_back calls setup or on_navigate of the   *)
(* screen it returns to and nothing of the screen it leaves.               *)
EditorBack ==
    /\ editor # NoEditor
    /\ editor.state = "shown"
    /\ editor' = [editor EXCEPT !.state = "hidden"]
    /\ UNCHANGED exceptEditor

(* 50 ms pass; a single-shot timer that runs out calls _update_preview     *)
TimePasses ==
    /\ editor # NoEditor
    /\ editor.now < MaxTime
    /\ editor' =
          IF editor.timer = 1
          THEN [editor EXCEPT !.now = @ + 1, !.timer = -1,
                              !.timer_updates = @ + 1,
                              !.fired = [time |-> editor.now + 1, values |-> editor.values]]
          ELSE IF editor.timer > 1
          THEN [editor EXCEPT !.now = @ + 1, !.timer = @ - 1]
          ELSE [editor EXCEPT !.now = @ + 1]
    /\ UNCHANGED exceptEditor

NextEditor ==
    \/ \E image_id \in ImageIds : EditorNavigate(image_id)
    \/ \E image_id \in ImageIds : ThumbnailClicked(image_id)
    \/ \E v \in SliderValues : SliderChanged(v)
    \/ EditorBack
    \/ TimePasses

SpecEditor == InitEditor /\ [][NextEditor]_vars

(***************************************************************************)
(* C21. When navigation leaves the image editor, the editor's on_leave is  *)
(* called: while the editor is not the current screen its preview timer is *)
(* stopped and the record of its image holds the slider values.            *)
(***************************************************************************)
C21_LeavingStopsAndSaves ==
    (editor # NoEditor /\ editor.state = "hidden" /\ editor.image # 0) =>
        /\ editor.timer = -1
        /\ editor.records[editor.image] = editor.values

CanvasSize == <<1200, 1200>>

OriginalSizes == {<<1200, 1200>>, <<800, 600>>, <<1200, 800>>}

(* PillowCenterer.center_image, lines 13-55: both returns are canvases of  *)
(* canvas_size                                                             *)
center_image(image_size) == CanvasSize

(* the sizes of the files _process_image writes, project_creation.py       *)
(* 185-217: the centered image, and the masks split from it                *)
ProcessedRecord(original_size, front_or_back) ==
    [original |-> original_size,
     is_background_removed |-> front_or_back,
     centered |-> IF front_or_back THEN center_image(original_size) ELSE <<>>,
     product_mask |-> IF front_or_back THEN center_image(original_size) ELSE <<>>,
     background_mask |-> IF front_or_back THEN center_image(original_size) ELSE <<>>,
     product_contrast |-> 0, background_contrast |-> 0]

InitPreview ==
    /\ IdleTone /\ IdleTrain /\ IdleFirst
    /\ IdleEditor /\ IdleNav /\ IdleResolving /\ IdleCreation
    /\ \E original_size \in OriginalSizes, front_or_back \in BOOLEAN :
          preview = [state |-> "created",
                     record |-> ProcessedRecord(original_size, front_or_back),
                     _bg_removal_enabled |-> TRUE,
                     _contrast_product |-> 0, _contrast_bg |-> 0,
                     _original_image |-> <<>>, _centered_image |-> <<>>,
                     _product_mask |-> <<>>, _bg_mask |-> <<>>,
                     blends |-> <<>>, displayed |-> <<>>]

(* _load_image_files, lines 867-904 *)
load_image_files(p) ==
    [p EXCEPT !._original_image = p.record.original,
              !._centered_image = p.record.centered,
              !._product_mask = p.record.product_mask,
              !._bg_mask = p.record.background_mask]

(* _perform_background_removal, lines 1016-1057 *)
perform_background_removal(p) ==
    LET centered == center_image(p._original_image)
    IN  [p EXCEPT !._centered_image = centered,
                  !._product_mask = centered,
                  !._bg_mask = centered,
                  !.record.centered = centered,
                  !.record.product_mask = centered,
                  !.record.background_mask = centered,
                  !.record.is_background_removed = TRUE]

(* Image.composite(adjusted, image, mask): ValueError unless the sizes     *)
(* match                                                                   *)
composite(p, img, used, mask_size) ==
    IF ~used \/ p.state = "ValueError" THEN p
    ELSE [p EXCEPT !.blends = Append(@, <<img, mask_size>>),
                   !.state = IF img = mask_size THEN @ ELSE "ValueError"]

(* _update_preview, lines 945-1014, from the choice of the image on *)
blend_and_display(p, img) ==
    LET masked == p._product_mask # <<>> /\ p._bg_mask # <<>>
        product == composite(p, img, masked /\ p._contrast_product # 0, p._product_mask)
        both == composite(product, img, masked /\ p._contrast_bg # 0, p._bg_mask)
    IN  IF both.state = "ValueError" THEN both ELSE [both EXCEPT !.displayed = img]

(* _update_preview, lines 945-1014 *)
update_preview(q) ==
    LET p == [q EXCEPT !.blends = <<>>, !.state = "shown"]
    IN  IF p._bg_removal_enabled
        THEN IF p.record.is_background_removed /\ p._centered_image # <<>>
             THEN blend_and_display(p, p._centered_image)
             ELSE IF p._original_image # <<>>
             THEN LET removed == perform_background_removal(p)
                  IN  blend_and_display(removed, removed._centered_image)
             ELSE p
        ELSE IF p._original_image # <<>>
        THEN blend_and_display(p, p._original_image)
        ELSE p

(* on_navigate and _load_image, lines 807-865: the sliders and the toggle  *)
(* are set from the record, the files are loaded, the preview is updated   *)
PreviewLoad ==
    /\ preview # NoPreview
    /\ preview.state = "created"
    /\ preview' = update_preview(load_image_files(
                      [preview EXCEPT !._bg_removal_enabled = preview.record.is_background_removed,
                                      !._contrast_product = preview.record.product_contrast,
                                      !._contrast_bg = preview.record.background_contrast]))
    /\ UNCHANGED exceptPreview

(* the toggle is flipped and the timer calls _update_preview *)
PreviewToggle ==
    /\ preview # NoPreview
    /\ preview.state \in {"shown", "ValueError"}
    /\ preview' = update_preview([preview EXCEPT !._bg_removal_enabled = ~@])
    /\ UNCHANGED exceptPreview

(* a region contrast slider is moved and the timer calls _update_preview *)
PreviewContrast(product, background) ==
    /\ preview # NoPreview
    /\ preview.state \in {"shown", "ValueError"}
    /\ <<product, background>> # <<preview._contrast_product, preview._contrast_bg>>
    /\ preview' = update_preview([preview EXCEPT !._contrast_product = product,
                                                 !._contrast_bg = background])
    /\ UNCHANGED exceptPreview

(* another thumbnail is selected, which saves the parameters, lines        *)
(* 929-943 and 1087-1099                                                   *)
PreviewSelectOther ==
    /\ preview # NoPreview
    /\ preview.state \in {"shown", "ValueError"}
    /\ preview' = [preview EXCEPT
                      !.state = "created",
                      !.record.is_background_removed = preview._bg_removal_enabled,
                      !.record.product_contrast = preview._contrast_product,
                      !.record.background_contrast = preview._contrast_bg,
                      !.blends = <<>>, !.displayed = <<>>]
    /\ UNCHANGED exceptPreview

NextPreview ==
    \/ PreviewLoad
    \/ PreviewToggle
    \/ \E product \in Contrasts, background \in Contrasts : PreviewContrast(product, background)
    \/ PreviewSelectOther

SpecPreview == InitPreview /\ [][NextPreview]_vars

(***************************************************************************)
(* C29. Whenever _update_preview blends a region-adjusted image through    *)
(* the product or the background mask, the mask has the pixel size of the  *)
(* image, whatever the toggle, the record's state and the original's size. *)
(***************************************************************************)
C29_MaskMatchesImage ==
    preview # NoPreview =>
        \A k \in DOMAIN preview.blends : preview.blends[k][1] = preview.blends[k][2]

====
